---- MODULE Spec2Model ----
(***************************************************************************)
(* Dynamic schema management of fiftyone/core/odm/mixins.py (DatasetMixin):*)
(* the per-class field registry (_fields, _fields_ordered), the dataset    *)
(* document's field lists and group field, and the storage commands the    *)
(* schema mutations issue.  Every classmethod of the mixin is an operator  *)
(* from a program state to an outcome (new state, raised error, returned   *)
(* value); the actions apply them to inputs drawn from small sets.         *)
(***************************************************************************)
EXTENDS Integers, Sequences, FiniteSets, TLC

VARIABLES
    _fields,          \* cls._fields: class -> (name -> field descriptor)
    _fields_ordered,  \* cls._fields_ordered: class -> tuple of names
    dataset_doc,      \* the in-memory DatasetDocument the calls are handed
    db_dataset_doc,   \* what dataset_doc.save() last wrote to the database
    call,             \* the call just made, until its caller takes the outcome
    unbacked,         \* history: dataset_doc.group_field was last assigned by a
                      \* call whose storage command did not complete
    threads           \* the calls running concurrently: each thread's call, the
                      \* step it is at and its local variables

vars == <<_fields, _fields_ordered, dataset_doc, db_dataset_doc, call, unbacked, threads>>

\* Python's None.
None == "<None>"

(***************************************************************************)
(* Bounds of the model.                                                    *)
(***************************************************************************)
\* Fields beyond the by-construction ones that the registries may hold.
MaxFields == 2
(***************************************************************************)
(* Strings: the str methods the code uses.                                 *)
(***************************************************************************)
startswith(s, p) == Len(s) >= Len(p) /\ SubSeq(s, 1, Len(p)) = p

RECURSIVE split_from(_, _, _)
\* s.split("."), scanning from position i with the chunk begun at position b
split_from(s, b, i) ==
    IF i > Len(s) THEN <<SubSeq(s, b, Len(s))>>
    ELSE IF SubSeq(s, i, i) = "." THEN <<SubSeq(s, b, i - 1)>> \o split_from(s, i + 1, i + 1)
    ELSE split_from(s, b, i + 1)

split(s) == split_from(s, 1, 1)

\* The elements of a sequence.
Range(seq) == {seq[i] : i \in DOMAIN seq}

\* chunks[:-1]
Front(seq) == SubSeq(seq, 1, Len(seq) - 1)

\* chunks[-1]
Last(seq) == seq[Len(seq)]

RECURSIVE join(_)
\* ".".join(chunks)
join(chunks) ==
    IF Len(chunks) = 0 THEN ""
    ELSE IF Len(chunks) = 1 THEN chunks[1]
    ELSE chunks[1] \o "." \o join(Tail(chunks))

(***************************************************************************)
(* Record classes, media types and field descriptors.                      *)
(***************************************************************************)
Classes == {"Sample", "Frame"}

_is_frames_doc(cls) == cls = "Frame"

_doc_name(cls) == IF _is_frames_doc(cls) THEN "Frame" ELSE "Sample"

\* Faulty variant of _fields_attr: both classes keep their field documents in
\* one list.
_fields_attr_shared(cls) == "sample_fields"

_fields_attr(cls) == IF _is_frames_doc(cls) THEN "frame_fields" ELSE "sample_fields"

VIDEO == "video"
GROUP == "group"

\* A field descriptor (fiftyone.core.fields.Field): `field` holds the contained
\* field of a ListField (a tuple of length 0 or 1), `fields` the declared
\* attributes of an EmbeddedDocumentField, in declaration order.
Field(name, db_field, ftype, document_type, field, fields, required, null) ==
    [name |-> name, db_field |-> db_field, ftype |-> ftype,
     document_type |-> document_type, field |-> field, fields |-> fields,
     required |-> required, null |-> null]

IsListField(f) == f.ftype = "ListField"

IsEmbeddedDocumentField(f) == f.ftype = "EmbeddedDocumentField"

IsObjectIdField(f) == f.ftype = "ObjectIdField"

\* fog.is_group_field
is_group_field(f) == IsEmbeddedDocumentField(f) /\ f.document_type = "Group"

\* EmbeddedDocumentField._fields: the attributes by name
HasSubfield(f, name) == \E i \in DOMAIN f.fields : f.fields[i].name = name

Subfield(f, name) == f.fields[CHOOSE i \in DOMAIN f.fields : f.fields[i].name = name]

(***************************************************************************)
(* Outcomes.  A call either returns or raises; an error is a record of the  *)
(* exception type, the message's kind and the names the message lists.     *)
(***************************************************************************)
Err(type, what, names) == [type |-> type, what |-> what, names |-> names]

NoErr == Err(None, None, <<>>)

Ok(err) == err.type = None

\* A python dict as the sequence of its (key, value) items, in insertion order.
Keys(items) == [i \in DOMAIN items |-> items[i][1]]

HasKey(items, k) == \E i \in DOMAIN items : items[i][1] = k

\* d[k] = v: an existing key keeps its place
DictSet(items, k, v) ==
    IF HasKey(items, k)
    THEN [i \in DOMAIN items |-> IF items[i][1] = k THEN <<k, v>> ELSE items[i]]
    ELSE Append(items, <<k, v>>)

RECURSIVE DictUpdate(_, _)
\* d.update(other)
DictUpdate(items, other) ==
    IF other = <<>> THEN items
    ELSE DictUpdate(DictSet(items, other[1][1], other[1][2]), Tail(other))

(***************************************************************************)
(* Collaborators of the mixin whose code is in other modules of the        *)
(* package (odm/utils.py, odm/dataset.py, core/fields.py, core/utils.py).  *)
(***************************************************************************)
\* validate_field_name: the naming rules, by media type and frame context.
\* Returns the error it raises, or NoErr.
validate_field_name(field_name, media_type, is_frame_field) ==
    IF field_name = "" THEN Err("ValueError", "invalid name", <<field_name>>)
    ELSE IF startswith(field_name, "_") THEN Err("ValueError", "invalid name", <<field_name>>)
    ELSE IF field_name = "frames" /\ media_type = VIDEO /\ ~is_frame_field
         THEN Err("ValueError", "invalid name", <<field_name>>)
    ELSE NoErr

RECURSIVE fields_match(_, _)
\* The structural comparison of validate_fields_match: same field type, same
\* embedded document type, same contained field type.
fields_match(field, existing_field) ==
    /\ field.ftype = existing_field.ftype
    /\ field.document_type = existing_field.document_type
    /\ Len(field.field) = Len(existing_field.field)
    /\ field.field # <<>> => fields_match(field.field[1], existing_field.field[1])

\* validate_fields_match(path, field, existing_field)
validate_fields_match(path, field, existing_field) ==
    IF fields_match(field, existing_field) THEN NoErr
    ELSE Err("ValueError", "type mismatch", <<path>>)

RECURSIVE from_field(_)
\* SampleFieldDocument.from_field: the persisted form of a descriptor.
from_field(f) ==
    [name |-> f.name,
     ftype |-> f.ftype,
     subfield |-> IF f.field = <<>> THEN None ELSE f.field[1].ftype,
     embedded_doc_type |->
        IF IsEmbeddedDocumentField(f) THEN f.document_type
        ELSE IF f.field # <<>> /\ IsEmbeddedDocumentField(f.field[1])
             THEN f.field[1].document_type
        ELSE None,
     db_field |-> f.db_field,
     fields |->
        LET src == IF IsEmbeddedDocumentField(f) THEN f.fields
                   ELSE IF f.field # <<>> /\ IsEmbeddedDocumentField(f.field[1])
                        THEN f.field[1].fields
                   ELSE <<>>
        IN [i \in DOMAIN src |-> from_field(src[i])]]

\* EmbeddedDocumentField._declare_field: insert, or replace in place.
embedded_declare_field(doc, field) ==
    IF HasSubfield(doc, field.name)
    THEN [doc EXCEPT !.fields =
            [i \in DOMAIN @ |-> IF @[i].name = field.name THEN field ELSE @[i]]]
    ELSE [doc EXCEPT !.fields = Append(@, field)]

RECURSIVE _merge_fields(_, _, _, _, _)
\* EmbeddedDocumentField._merge_fields: the recursive merge of `field` into
\* the existing embedded field at `path`.  Returns the error raised (if any)
\* and the new embedded paths, a dict of path -> field.
_merge_fields(existing, path, field, validate, recursive) ==
    LET top == IF validate THEN validate_fields_match(path, field, existing) ELSE NoErr
        \* the attributes of `field` from index i on, merged into acc
        RECURSIVE walk(_, _)
        walk(i, acc) ==
            IF i > Len(field.fields) THEN [err |-> NoErr, new |-> acc]
            ELSE LET sub == field.fields[i]
                     _path == path \o "." \o sub.name
                 IN IF ~HasSubfield(existing, sub.name)
                    THEN walk(i + 1, DictSet(acc, _path, sub))
                    ELSE LET ex == Subfield(existing, sub.name)
                             m == IF validate THEN validate_fields_match(_path, sub, ex)
                                  ELSE NoErr
                         IN IF ~Ok(m) THEN [err |-> m, new |-> acc]
                            ELSE IF recursive /\ IsEmbeddedDocumentField(ex)
                                    /\ IsEmbeddedDocumentField(sub)
                            THEN LET r == _merge_fields(ex, _path, sub, validate, recursive)
                                 IN IF ~Ok(r.err) THEN [err |-> r.err, new |-> acc]
                                    ELSE walk(i + 1, DictUpdate(acc, r.new))
                            ELSE walk(i + 1, acc)
    IN IF ~Ok(top) THEN [err |-> top, new |-> <<>>]
       ELSE IF ~IsEmbeddedDocumentField(field) THEN [err |-> NoErr, new |-> <<>>]
       ELSE walk(1, <<>>)

\* fou.handle_error(error, error_level): raise (0), warn (1) or ignore (2).
handle_error(error, error_level) == IF error_level = 0 THEN error ELSE NoErr

(***************************************************************************)
(* The program state a call works on: S.f and S.o are cls._fields and       *)
(* cls._fields_ordered, S.d the dataset document in memory, S.db the saved  *)
(* dataset document, S.updates the storage commands (update_many) the call  *)
(* has issued, S.saves the number of dataset_doc.save() calls it made and   *)
(* S.designated the names it assigned to dataset_doc.group_field.           *)
(***************************************************************************)
State == [f |-> _fields, o |-> _fields_ordered, d |-> dataset_doc,
          db |-> db_dataset_doc, updates |-> <<>>, saves |-> 0, designated |-> <<>>]

\* dataset_doc.save()
save(S) == [S EXCEPT !.db = S.d, !.saves = @ + 1]

\* What a call hands back: the state it leaves, the error it raised (or NoErr)
\* and the value it returned ("True", "False" or None).
Outcome(S, err, ret) == [S |-> S, err |-> err, ret |-> ret]

Raise(S, err) == Outcome(S, err, None)

Return(S, ret) == Outcome(S, NoErr, ret)

(***************************************************************************)
(* mixins.py, module level.                                                *)
(***************************************************************************)
\* Faulty variant of _get_db_field: the storage name is not recomputed.
_get_db_field_stale(field, new_field_name) == field.db_field

\* Faulty variant of _get_db_field: the storage name is compared with the new
\* name's underscore form instead of the field's own.
_get_db_field_by_new_name(field, new_field_name) ==
    IF field.db_field = None THEN None
    ELSE IF field.db_field = "_" \o new_field_name THEN "_" \o new_field_name
    ELSE new_field_name

_get_db_field(field, new_field_name) ==
    IF field.db_field = None THEN None
    ELSE IF field.db_field = "_" \o field.name THEN "_" \o new_field_name
    ELSE new_field_name

(***************************************************************************)
(* DatasetMixin: the registry.                                             *)
(***************************************************************************)
\* Faulty variant of _declare_field: a replacing descriptor keeps its own
\* required and null.
_declare_field_keeps_own(S, cls, field) ==
    [S EXCEPT
       !.f[cls] = [n \in (DOMAIN @) \cup {field.name} |->
                      IF n = field.name THEN field ELSE @[n]],
       !.o[cls] = IF field.name \in DOMAIN S.f[cls] THEN @ ELSE Append(@, field.name)]

\* cls._declare_field(field), for a descriptor
_declare_field(S, cls, field) ==
    LET prev == field.name \in DOMAIN S.f[cls]
        decl == IF prev
                THEN [field EXCEPT !.required = S.f[cls][field.name].required,
                                   !.null = S.f[cls][field.name].null]
                ELSE field
    IN [S EXCEPT
          !.f[cls] = [n \in (DOMAIN @) \cup {field.name} |->
                         IF n = field.name THEN decl ELSE @[n]],
          !.o[cls] = IF prev THEN @ ELSE Append(@, field.name)]

\* cls._get_fields_ordered(include_private, use_db_fields) over a registry
_to_db_fields(fields, field_names) ==
    [i \in DOMAIN field_names |->
        IF fields[field_names[i]].db_field # None THEN fields[field_names[i]].db_field
        ELSE field_names[i]]

RECURSIVE without_private(_)
\* tuple(f for f in field_names if not f.startswith("_"))
without_private(field_names) ==
    IF field_names = <<>> THEN <<>>
    ELSE IF startswith(field_names[1], "_") THEN without_private(Tail(field_names))
    ELSE <<field_names[1]>> \o without_private(Tail(field_names))

\* Faulty variant of _get_fields_ordered: private names are never filtered.
_get_fields_ordered_unfiltered(fields, ordered, include_private, use_db_fields) ==
    IF use_db_fields THEN _to_db_fields(fields, ordered) ELSE ordered

_get_fields_ordered(fields, ordered, include_private, use_db_fields) ==
    LET field_names == IF include_private THEN ordered ELSE without_private(ordered)
    IN IF use_db_fields THEN _to_db_fields(fields, field_names) ELSE field_names

(***************************************************************************)
(* The by-construction fields: those of the base class cls.__bases__[0],   *)
(* which every record class of a dataset inherits.                         *)
(***************************************************************************)
BaseFields(cls) ==
    IF _is_frames_doc(cls)
    THEN << Field("id", "_id", "ObjectIdField", None, <<>>, <<>>, TRUE, FALSE),
            Field("frame_number", "frame_number", "IntField", None, <<>>, <<>>, TRUE, FALSE) >>
    ELSE << Field("id", "_id", "ObjectIdField", None, <<>>, <<>>, TRUE, FALSE),
            Field("filepath", "filepath", "StringField", None, <<>>, <<>>, TRUE, FALSE) >>

BaseFieldsOrdered(cls) == [i \in DOMAIN BaseFields(cls) |-> BaseFields(cls)[i].name]

BaseFieldsDict(cls) ==
    [n \in Range(BaseFieldsOrdered(cls)) |->
        BaseFields(cls)[CHOOSE i \in DOMAIN BaseFields(cls) : BaseFields(cls)[i].name = n]]

\* get_default_fields(cls, include_private, use_db_fields), of a base class
get_default_fields(base, include_private, use_db_fields) ==
    _get_fields_ordered(BaseFieldsDict(base), BaseFieldsOrdered(base),
                        include_private, use_db_fields)

\* Faulty variant of _get_default_fields: the base class's fields are left out.
_get_default_fields_no_base(cls, doc) ==
    IF doc # <<>> /\ doc[1].media_type = GROUP /\ ~_is_frames_doc(cls)
    THEN {doc[1].group_field}
    ELSE {}

\* cls._get_default_fields(dataset_doc=None): `doc` is <<>> when no dataset
\* document is passed, <<dataset_doc>> otherwise
_get_default_fields(cls, doc) ==
    LET default_fields == Range(get_default_fields(cls, TRUE, FALSE))
    IN IF doc # <<>> /\ doc[1].media_type = GROUP /\ ~_is_frames_doc(cls)
       THEN default_fields \cup {doc[1].group_field}
       ELSE default_fields

(***************************************************************************)
(* DatasetMixin._merge_field                                               *)
(***************************************************************************)
RECURSIVE _merge_field_walk_names_chunk(_, _, _, _, _)
\* Faulty variant of _merge_field_walk: the errors name the chunk, not root.
_merge_field_walk_names_chunk(S, cls, chunks, i, doc) ==
    IF i > Len(chunks) - 1 THEN [err |-> NoErr, doc |-> doc]
    ELSE LET chunk == chunks[i]
             has == IF doc = <<>> THEN chunk \in DOMAIN S.f[cls]
                    ELSE HasSubfield(doc[1], chunk)
         IN IF ~has
            THEN [err |-> Err("ValueError", "non-existent field", <<chunk>>), doc |-> doc]
            ELSE LET found == IF doc = <<>> THEN S.f[cls][chunk] ELSE Subfield(doc[1], chunk)
                     inner == IF IsListField(found) THEN found.field ELSE <<found>>
                 IN IF inner = <<>> \/ ~IsEmbeddedDocumentField(inner[1])
                    THEN [err |-> Err("ValueError", "not an embedded field", <<chunk>>),
                          doc |-> doc]
                    ELSE _merge_field_walk_names_chunk(S, cls, chunks, i + 1, inner)

RECURSIVE _merge_field_walk(_, _, _, _, _)
\* The loop over chunks[:-1] (lines 880-911) from chunk i on; `doc` is <<>>
\* while the container is cls itself and <<field>> inside an embedded field.
_merge_field_walk(S, cls, chunks, i, doc) ==
    IF i > Len(chunks) - 1 THEN [err |-> NoErr, doc |-> doc]
    ELSE LET chunk == chunks[i]
             root == join(SubSeq(chunks, 1, i))
             has == IF doc = <<>> THEN chunk \in DOMAIN S.f[cls]
                    ELSE HasSubfield(doc[1], chunk)
         IN IF ~has
            THEN [err |-> Err("ValueError", "non-existent field", <<root>>), doc |-> doc]
            ELSE LET found == IF doc = <<>> THEN S.f[cls][chunk] ELSE Subfield(doc[1], chunk)
                     \* doc.field of a ListField (None when it has no contained field)
                     inner == IF IsListField(found) THEN found.field ELSE <<found>>
                 IN IF inner = <<>> \/ ~IsEmbeddedDocumentField(inner[1])
                    THEN [err |-> Err("ValueError", "not an embedded field", <<root>>),
                          doc |-> doc]
                    ELSE _merge_field_walk(S, cls, chunks, i + 1, inner)

\* Faulty variant of _merge_field: a field named "id" is merged as any other.
_merge_field_merges_id(S, cls, path, field, validate, recursive) ==
    LET chunks == split(path)
        w == _merge_field_walk(S, cls, chunks, 1, <<>>)
        doc == w.doc
        leaf == Last(chunks)
        field_name == IF IsObjectIdField(field) /\ startswith(leaf, "_")
                      THEN SubSeq(leaf, 2, Len(leaf)) ELSE leaf
        exists == IF doc = <<>> THEN field_name \in DOMAIN S.f[cls]
                  ELSE HasSubfield(doc[1], field_name)
        existing_field == IF doc = <<>> THEN S.f[cls][field_name]
                          ELSE Subfield(doc[1], field_name)
        is_frame_field == _is_frames_doc(cls)
        named == validate_field_name(field_name, S.d.media_type, is_frame_field)
    IN IF ~Ok(w.err) THEN [err |-> w.err, new |-> <<>>]
       ELSE IF exists
       THEN IF recursive /\ IsEmbeddedDocumentField(existing_field)
            THEN _merge_fields(existing_field, path, field, validate, recursive)
            ELSE IF validate
            THEN [err |-> validate_fields_match(path, field, existing_field), new |-> <<>>]
            ELSE [err |-> NoErr, new |-> <<>>]
       ELSE IF ~Ok(named) THEN [err |-> named, new |-> <<>>]
       ELSE IF is_group_field(field) /\ is_frame_field
       THEN [err |-> Err("ValueError", "frame-level group field", <<field_name>>),
             new |-> <<>>]
       ELSE IF is_group_field(field) /\ S.d.group_field \notin {None, field_name}
       THEN [err |-> Err("ValueError", "one group field", <<field_name>>), new |-> <<>>]
       ELSE [err |-> NoErr, new |-> << <<path, field>> >>]

\* cls._merge_field(path, field, dataset_doc, validate, recursive): the error
\* raised, or the dict of new fields ({} for a None return)
_merge_field(S, cls, path, field, validate, recursive) ==
    LET chunks == split(path)
        w == _merge_field_walk(S, cls, chunks, 1, <<>>)
        doc == w.doc
        leaf == Last(chunks)
        field_name == IF IsObjectIdField(field) /\ startswith(leaf, "_")
                      THEN SubSeq(leaf, 2, Len(leaf)) ELSE leaf
        exists == IF doc = <<>> THEN field_name \in DOMAIN S.f[cls]
                  ELSE HasSubfield(doc[1], field_name)
        existing_field == IF doc = <<>> THEN S.f[cls][field_name]
                          ELSE Subfield(doc[1], field_name)
        is_frame_field == _is_frames_doc(cls)
        named == validate_field_name(field_name, S.d.media_type, is_frame_field)
    IN IF ~Ok(w.err) THEN [err |-> w.err, new |-> <<>>]
       ELSE IF field_name = "id" THEN [err |-> NoErr, new |-> <<>>]
       ELSE IF exists
       THEN IF recursive /\ IsEmbeddedDocumentField(existing_field)
            THEN _merge_fields(existing_field, path, field, validate, recursive)
            ELSE IF validate
            THEN [err |-> validate_fields_match(path, field, existing_field), new |-> <<>>]
            ELSE [err |-> NoErr, new |-> <<>>]
       ELSE IF ~Ok(named) THEN [err |-> named, new |-> <<>>]
       ELSE IF is_group_field(field) /\ is_frame_field
       THEN [err |-> Err("ValueError", "frame-level group field", <<field_name>>),
             new |-> <<>>]
       ELSE IF is_group_field(field) /\ S.d.group_field \notin {None, field_name}
       THEN [err |-> Err("ValueError", "one group field", <<field_name>>), new |-> <<>>]
       ELSE [err |-> NoErr, new |-> << <<path, field>> >>]

(***************************************************************************)
(* DatasetMixin._add_field_schema                                          *)
(***************************************************************************)
\* The first document of field_docs named `name` (the loop of lines 977-981)
HasDoc(field_docs, name) == \E i \in DOMAIN field_docs : field_docs[i].name = name

DocIndex(field_docs, name) ==
    CHOOSE i \in DOMAIN field_docs :
        /\ field_docs[i].name = name
        /\ \A j \in 1..(i - 1) : field_docs[j].name # name

RECURSIVE _add_field_walk(_, _, _, _, _, _)
\* The loop over chunks[:-1] (lines 970-1005) from chunk i on: the error it
\* raises, if any.  `doc` is <<>> for cls and <<field>> inside an embedded field.
_add_field_walk(S, cls, chunks, i, doc, field_docs) ==
    IF i > Len(chunks) - 1 THEN NoErr
    ELSE LET chunk == chunks[i]
             root == join(SubSeq(chunks, 1, i))
             has == IF doc = <<>> THEN chunk \in DOMAIN S.f[cls]
                    ELSE HasSubfield(doc[1], chunk)
         IN IF ~HasDoc(field_docs, chunk)
            THEN Err("ValueError", "has not been defined", <<root>>)
            ELSE IF ~has THEN Err("KeyError", "not in _fields", <<chunk>>)
            ELSE LET found == IF doc = <<>> THEN S.f[cls][chunk] ELSE Subfield(doc[1], chunk)
                     inner == IF IsListField(found) THEN found.field ELSE <<found>>
                 IN IF inner = <<>> \/ ~IsEmbeddedDocumentField(inner[1])
                    THEN Err("ValueError", "not an embedded field", <<root>>)
                    ELSE _add_field_walk(S, cls, chunks, i + 1, inner,
                                         field_docs[DocIndex(field_docs, chunk)].fields)

RECURSIVE declare_at(_, _, _)
\* The descriptor d after doc._declare_field(field), where doc is the embedded
\* document reached from d through `chunks` (a ListField is entered through
\* its contained field).
declare_at(d, chunks, field) ==
    LET inner == IF IsListField(d) THEN d.field[1] ELSE d
        idx == CHOOSE i \in DOMAIN inner.fields : inner.fields[i].name = chunks[1]
        inner2 == IF chunks = <<>> THEN embedded_declare_field(inner, field)
                  ELSE [inner EXCEPT !.fields[idx] = declare_at(@, Tail(chunks), field)]
    IN IF IsListField(d) THEN [d EXCEPT !.field = <<inner2>>] ELSE inner2

RECURSIVE append_at(_, _, _)
\* field_docs after the append of line 1014 to the list reached through chunks
append_at(field_docs, chunks, field_doc) ==
    IF chunks = <<>> THEN Append(field_docs, field_doc)
    ELSE [field_docs EXCEPT ![DocIndex(field_docs, chunks[1])].fields =
              append_at(@, Tail(chunks), field_doc)]

\* cls._add_field_schema(path, field, dataset_doc)
_add_field_schema(S, cls, path, field) ==
    LET chunks == split(path)
        name == Last(chunks)
        attr == _fields_attr(cls)
        err == _add_field_walk(S, cls, chunks, 1, <<>>, S.d[attr])
        copy == [field EXCEPT !.db_field = _get_db_field(field, name), !.name = name]
        S1 == IF Len(chunks) = 1 THEN _declare_field(S, cls, copy)
              ELSE [S EXCEPT !.f[cls][chunks[1]] =
                       declare_at(@, SubSeq(chunks, 2, Len(chunks) - 1), copy)]
        \* the descriptor as _declare_field left it
        declared == IF Len(chunks) = 1 THEN S1.f[cls][name] ELSE copy
        S2 == [S1 EXCEPT !.d[attr] = append_at(@, Front(chunks), from_field(declared))]
    IN IF ~Ok(err) THEN Raise(S, err) ELSE Return(S2, None)

(***************************************************************************)
(* DatasetMixin.merge_field_schema, add_field                              *)
(***************************************************************************)
\* new_schema.update(_new_schema) of line 229, for the result m of _merge_field
_merge_update(new_schema, m) ==
    [err |-> m.err, new |-> IF Ok(m.err) THEN DictUpdate(new_schema, m.new) ELSE new_schema]

RECURSIVE _merge_all(_, _, _, _, _, _)
\* The loop of lines 220-229 over schema.items(): `acc` is the dict new_schema
\* so far, with the error of the _merge_field that raised, if one did.
_merge_all(S, cls, schema, validate, recursive, acc) ==
    IF ~Ok(acc.err) \/ schema = <<>> THEN acc
    ELSE _merge_all(S, cls, Tail(schema), validate, recursive,
                    _merge_update(acc.new,
                                  _merge_field(S, cls, schema[1][1], schema[1][2],
                                               validate, recursive)))

RECURSIVE _add_all(_, _, _)
\* The loop of lines 240-241 over new_schema.items(): `out` is the outcome of
\* the iterations made so far.
_add_all(out, cls, new_schema) ==
    IF ~Ok(out.err) \/ new_schema = <<>> THEN out
    ELSE _add_all(_add_field_schema(out.S, cls, new_schema[1][1], new_schema[1][2]),
                  cls, Tail(new_schema))

\* Faulty variant of merge_field_schema: the new fields are added before
\* expand_schema is looked at.
_eager_added(added, m, expand_schema) ==
    IF ~Ok(added.err) THEN added
    ELSE IF ~expand_schema
    THEN Raise(added.S, Err("ValueError", "fields do not exist", Keys(m.new)))
    ELSE Return(save(added.S), "True")

_eager_merged(S, cls, m, expand_schema) ==
    IF ~Ok(m.err) THEN Raise(S, m.err)
    ELSE IF m.new = <<>> THEN Return(S, "False")
    ELSE _eager_added(_add_all(Return(S, None), cls, m.new), m, expand_schema)

merge_field_schema_eager(S, cls, schema, expand_schema, recursive, validate) ==
    _eager_merged(S, cls,
                  _merge_all(S, cls, schema, validate, recursive,
                             [err |-> NoErr, new |-> <<>>]),
                  expand_schema)

\* Faulty variant of merge_field_schema: the dataset document is not saved.
_unsaved_added(added) == IF ~Ok(added.err) THEN added ELSE Return(added.S, "True")

_unsaved_merged(S, cls, m, expand_schema) ==
    IF ~Ok(m.err) THEN Raise(S, m.err)
    ELSE IF m.new # <<>> /\ ~expand_schema
    THEN Raise(S, Err("ValueError", "fields do not exist", Keys(m.new)))
    ELSE IF m.new = <<>> THEN Return(S, "False")
    ELSE _unsaved_added(_add_all(Return(S, None), cls, m.new))

merge_field_schema_unsaved(S, cls, schema, expand_schema, recursive, validate) ==
    _unsaved_merged(S, cls,
                    _merge_all(S, cls, schema, validate, recursive,
                               [err |-> NoErr, new |-> <<>>]),
                    expand_schema)

\* cls.merge_field_schema(schema, expand_schema, recursive, validate, dataset_doc)
\* lines 243-245, for the outcome `added` of the loop of lines 240-241
_schema_added(added) == IF ~Ok(added.err) THEN added ELSE Return(save(added.S), "True")

\* lines 231-245, for the result m of the loop of lines 220-229
_schema_merged(S, cls, m, expand_schema) ==
    IF ~Ok(m.err) THEN Raise(S, m.err)
    ELSE IF m.new # <<>> /\ ~expand_schema
    THEN Raise(S, Err("ValueError", "fields do not exist", Keys(m.new)))
    ELSE IF m.new = <<>> THEN Return(S, "False")
    ELSE _schema_added(_add_all(Return(S, None), cls, m.new))

merge_field_schema(S, cls, schema, expand_schema, recursive, validate) ==
    _schema_merged(S, cls,
                   _merge_all(S, cls, schema, validate, recursive,
                              [err |-> NoErr, new |-> <<>>]),
                   expand_schema)

\* create_field(name, ftype, ...) of odm/dataset.py, by the kind of field
\* asked for: user-defined fields are nullable, and the storage name is the
\* name, underscore-prefixed for an ObjectIdField.  "raw" is a StringField
\* the caller constructed directly: it has no name and no storage name yet;
\* "stored" is one the caller constructed with a storage name of its own.
create_field(name, kind) ==
    CASE kind = "int" -> Field(name, name, "IntField", None, <<>>, <<>>, FALSE, TRUE)
      [] kind = "raw" -> Field(None, None, "StringField", None, <<>>, <<>>, FALSE, FALSE)
      [] kind = "stored" ->
            Field(name, name \o "_db", "StringField", None, <<>>, <<>>, FALSE, FALSE)
      [] kind = "oid" ->
            Field(name, IF startswith(name, "_") THEN name ELSE "_" \o name,
                  "ObjectIdField", None, <<>>, <<>>, FALSE, TRUE)
      [] kind = "doc" ->
            Field(name, name, "EmbeddedDocumentField", "Doc", <<>>, <<>>, FALSE, TRUE)
      [] kind = "group" ->
            Field(name, name, "EmbeddedDocumentField", "Group", <<>>, <<>>, FALSE, TRUE)
      [] kind = "list" ->
            Field(name, name, "ListField", None,
                  << Field(None, None, "EmbeddedDocumentField", "Doc", <<>>, <<>>, FALSE, TRUE) >>,
                  <<>>, FALSE, TRUE)
      [] kind = "ilist" ->
            Field(name, name, "ListField", None,
                  << Field(None, None, "IntField", None, <<>>, <<>>, FALSE, TRUE) >>,
                  <<>>, FALSE, TRUE)

\* cls._create_field(path, ftype, ...)
_create_field(path, kind) == create_field(Last(split(path)), kind)

\* cls.add_field(path, ftype, ..., expand_schema, recursive, validate)
add_field(S, cls, path, kind, expand_schema, recursive, validate) ==
    merge_field_schema(S, cls, << <<path, _create_field(path, kind)>> >>,
                       expand_schema, recursive, validate)

(***************************************************************************)
(* Storage: the update_many commands issued on the class's collection.     *)
(* The store is an external collaborator; a command may fail (ok = FALSE), *)
(* and then it raises.                                                     *)
(***************************************************************************)
_handle_db_field(S, cls, field_name, new_field_name) ==
    IF field_name \notin DOMAIN S.f[cls] \/ S.f[cls][field_name].db_field = None
    THEN <<field_name, new_field_name>>
    ELSE <<S.f[cls][field_name].db_field,
           IF new_field_name # None
           THEN _get_db_field(S.f[cls][field_name], new_field_name)
           ELSE None>>

\* cls._handle_db_fields(field_names, new_field_names): the zipped pairs
_handle_db_fields(S, cls, field_names, new_field_names) ==
    [i \in 1..Len(field_names) |->
        _handle_db_field(S, cls, field_names[i],
                         IF new_field_names = <<>> THEN None ELSE new_field_names[i])]

update_many(S, cls, op, expr, ok) ==
    IF ok
    THEN Return([S EXCEPT !.updates = Append(@, [coll |-> cls, op |-> op, expr |-> expr])],
                None)
    ELSE Raise(S, Err("StorageError", op, <<>>))

RECURSIVE dict_of(_)
\* {k: v for k, v in pairs}: a repeated key keeps its place and its last value
dict_of(pairs) ==
    IF pairs = <<>> THEN <<>>
    ELSE DictSet(dict_of(Front(pairs)), Last(pairs)[1], Last(pairs)[2])

_rename_fields_simple(S, cls, field_names, new_field_names, ok) ==
    IF field_names = <<>> THEN Return(S, None)
    ELSE update_many(S, cls, "$rename",
                     dict_of(_handle_db_fields(S, cls, field_names, new_field_names)), ok)

\* set_expr = {v: "$" + k for k, v in zip(_field_names, _new_field_names)}
_clone_fields_simple(S, cls, field_names, new_field_names, ok) ==
    IF field_names = <<>> THEN Return(S, None)
    ELSE LET pairs == _handle_db_fields(S, cls, field_names, new_field_names)
         IN update_many(S, cls, "$set",
                        dict_of([i \in DOMAIN pairs |-> <<pairs[i][2], "$" \o pairs[i][1]>>]),
                        ok)

_clear_fields_simple(S, cls, field_names, ok) ==
    IF field_names = <<>> THEN Return(S, None)
    ELSE LET keys == _handle_db_fields(S, cls, field_names, <<>>)
         IN update_many(S, cls, "$set",
                        dict_of([i \in DOMAIN keys |-> <<keys[i][1], None>>]), ok)

\* [{"$unset": _field_names}]: the keys, as a list
_delete_fields_simple(S, cls, field_names, ok) ==
    IF field_names = <<>> THEN Return(S, None)
    ELSE LET keys == _handle_db_fields(S, cls, field_names, <<>>)
         IN update_many(S, cls, "$unset", [i \in DOMAIN keys |-> keys[i][1]], ok)

(***************************************************************************)
(* The schema halves of rename, clone and delete.                          *)
(***************************************************************************)
\* Faulty variant of _rename_field_schema: the old key stays in _fields.
_rename_field_schema_keeps_key(S, cls, field_name, new_field_name) ==
    IF field_name \notin DOMAIN S.f[cls]
    THEN Raise(S, Err("KeyError", "not in _fields", <<field_name>>))
    ELSE LET field == S.f[cls][field_name]
             new_db_field == _get_db_field(field, new_field_name)
             renamed == [field EXCEPT !.name = new_field_name, !.db_field = new_db_field]
             attr == _fields_attr(cls)
         IN Return(
              [S EXCEPT
                 !.f[cls] = [n \in (DOMAIN @) \cup {new_field_name} |->
                                IF n = new_field_name THEN renamed ELSE @[n]],
                 !.o[cls] = [i \in DOMAIN @ |->
                                IF @[i] # field_name THEN @[i] ELSE new_field_name],
                 !.d[attr] = [i \in DOMAIN @ |->
                                IF @[i].name = field_name
                                THEN [@[i] EXCEPT !.name = new_field_name,
                                                  !.db_field = new_db_field]
                                ELSE @[i]]],
              None)

\* Faulty variant of _rename_field_schema: the new name goes to the end of
\* _fields_ordered.
_rename_field_schema_appends(S, cls, field_name, new_field_name) ==
    IF field_name \notin DOMAIN S.f[cls]
    THEN Raise(S, Err("KeyError", "not in _fields", <<field_name>>))
    ELSE LET field == S.f[cls][field_name]
             new_db_field == _get_db_field(field, new_field_name)
             renamed == [field EXCEPT !.name = new_field_name, !.db_field = new_db_field]
             attr == _fields_attr(cls)
         IN Return(
              [S EXCEPT
                 !.f[cls] = [n \in ((DOMAIN @) \ {field_name}) \cup {new_field_name} |->
                                IF n = new_field_name THEN renamed ELSE @[n]],
                 !.o[cls] = Append(SelectSeq(@, LAMBDA fn : fn # field_name), new_field_name),
                 !.d[attr] = [i \in DOMAIN @ |->
                                IF @[i].name = field_name
                                THEN [@[i] EXCEPT !.name = new_field_name,
                                                  !.db_field = new_db_field]
                                ELSE @[i]]],
              None)

_rename_field_schema(S, cls, field_name, new_field_name) ==
    IF field_name \notin DOMAIN S.f[cls]
    THEN Raise(S, Err("KeyError", "not in _fields", <<field_name>>))
    ELSE LET field == S.f[cls][field_name]
             new_db_field == _get_db_field(field, new_field_name)
             renamed == [field EXCEPT !.name = new_field_name, !.db_field = new_db_field]
             attr == _fields_attr(cls)
         IN Return(
              [S EXCEPT
                 !.f[cls] = [n \in ((DOMAIN @) \ {field_name}) \cup {new_field_name} |->
                                IF n = new_field_name THEN renamed ELSE @[n]],
                 !.o[cls] = [i \in DOMAIN @ |->
                                IF @[i] # field_name THEN @[i] ELSE new_field_name],
                 !.d[attr] = [i \in DOMAIN @ |->
                                IF @[i].name = field_name
                                THEN [@[i] EXCEPT !.name = new_field_name,
                                                  !.db_field = new_db_field]
                                ELSE @[i]]],
              None)

\* Faulty variant of _clone_field_schema: the source descriptor itself is
\* declared under the new name (no copy), so it takes the clone's name and
\* storage name.
_clone_field_schema_shared(S, cls, field_name, new_field_name) ==
    IF field_name \notin DOMAIN S.f[cls]
    THEN Raise(S, Err("KeyError", "not in _fields", <<field_name>>))
    ELSE [_add_field_schema(S, cls, new_field_name, S.f[cls][field_name])
             EXCEPT !.S.f[cls][field_name].name = new_field_name,
                    !.S.f[cls][field_name].db_field =
                        _get_db_field(S.f[cls][field_name], new_field_name)]

_clone_field_schema(S, cls, field_name, new_field_name) ==
    IF field_name \notin DOMAIN S.f[cls]
    THEN Raise(S, Err("KeyError", "not in _fields", <<field_name>>))
    ELSE _add_field_schema(S, cls, new_field_name, S.f[cls][field_name])

RECURSIVE remove_all(_, _)
\* tuple(fn for fn in ordered if fn != field_name)
remove_all(ordered, field_name) ==
    IF ordered = <<>> THEN <<>>
    ELSE IF ordered[1] = field_name THEN remove_all(Tail(ordered), field_name)
    ELSE <<ordered[1]>> \o remove_all(Tail(ordered), field_name)

\* del fields[idx] at the first document named field_name (lines 1082-1085)
delete_first(field_docs, field_name) ==
    IF ~HasDoc(field_docs, field_name) THEN field_docs
    ELSE LET idx == DocIndex(field_docs, field_name)
         IN SubSeq(field_docs, 1, idx - 1) \o SubSeq(field_docs, idx + 1, Len(field_docs))

_delete_field_schema(S, cls, field_name) ==
    IF field_name \notin DOMAIN S.f[cls]
    THEN Raise(S, Err("KeyError", "not in _fields", <<field_name>>))
    ELSE Return(
           [S EXCEPT
              !.f[cls] = [n \in (DOMAIN @) \ {field_name} |-> @[n]],
              !.o[cls] = remove_all(@, field_name),
              !.d[_fields_attr(cls)] = delete_first(@, field_name)],
           None)

\* dataset_doc.app_config._rename_paths / _delete_paths: the saved path
\* references of the app configuration
_rename_paths(S, field_names, new_field_names) ==
    [S EXCEPT !.d.app_config =
        {IF \E i \in DOMAIN field_names : field_names[i] = p
         THEN new_field_names[CHOOSE i \in DOMAIN field_names : field_names[i] = p]
         ELSE p : p \in @}]

_delete_paths(S, field_names) == [S EXCEPT !.d.app_config = @ \ Range(field_names)]

(***************************************************************************)
(* DatasetMixin._rename_fields                                             *)
(***************************************************************************)
RECURSIVE _rename_validate(_, _, _, _, _)
\* The validation loop of lines 420-450 from pair i on.  cls._fields does
\* not change in the loop; dataset_doc.group_field does.
_rename_validate(S, cls, field_names, new_field_names, i) ==
    IF i > Len(field_names) \/ i > Len(new_field_names) THEN Return(S, None)
    ELSE LET field_name == field_names[i]
             new_field_name == new_field_names[i]
             default_fields == _get_default_fields(cls, <<>>)
             named == validate_field_name(new_field_name, S.d.media_type,
                                          _is_frames_doc(cls))
         IN IF field_name \in default_fields
            THEN Raise(S, Err("ValueError", "cannot rename default field", <<field_name>>))
            ELSE IF field_name \notin DOMAIN S.f[cls]
            THEN Raise(S, Err("AttributeError", "does not exist", <<field_name>>))
            ELSE IF new_field_name \in DOMAIN S.f[cls]
            THEN Raise(S, Err("ValueError", "already exists", <<new_field_name>>))
            ELSE IF ~Ok(named) THEN Raise(S, named)
            ELSE _rename_validate(
                   IF is_group_field(S.f[cls][field_name])
                   THEN [S EXCEPT !.d.group_field = new_field_name,
                                  !.designated = Append(@, new_field_name)]
                   ELSE S,
                   cls, field_names, new_field_names, i + 1)

RECURSIVE _rename_schemas(_, _, _, _, _)
\* The loop of lines 454-455 from pair i on; `out` is the outcome of the steps
\* made so far (an error ends the loop)
_rename_schemas(out, cls, field_names, new_field_names, i) ==
    IF ~Ok(out.err) \/ i > Len(field_names) \/ i > Len(new_field_names) THEN out
    ELSE _rename_schemas(
           _rename_field_schema(out.S, cls, field_names[i], new_field_names[i]),
           cls, field_names, new_field_names, i + 1)

\* lines 457-458, for the outcome r of the storage command and the loop
_rename_renamed(r, field_names, new_field_names) ==
    IF ~Ok(r.err) THEN r
    ELSE Return(save(_rename_paths(r.S, field_names, new_field_names)), None)

\* lines 452-458, for the outcome v of the validation loop
_rename_validated(v, cls, field_names, new_field_names, ok) ==
    IF ~Ok(v.err) THEN v
    ELSE _rename_renamed(
           _rename_schemas(_rename_fields_simple(v.S, cls, field_names, new_field_names, ok),
                           cls, field_names, new_field_names, 1),
           field_names, new_field_names)

\* cls._rename_fields(field_names, new_field_names, dataset_doc); `ok` is
\* whether the storage command succeeds
_rename_fields(S, cls, field_names, new_field_names, ok) ==
    _rename_validated(_rename_validate(S, cls, field_names, new_field_names, 1),
                      cls, field_names, new_field_names, ok)

(***************************************************************************)
(* DatasetMixin._clone_fields (sample_collection=None)                     *)
(***************************************************************************)
RECURSIVE _clone_validate(_, _, _, _, _)
\* The validation loop of lines 511-538 from pair i on
_clone_validate(S, cls, field_names, new_field_names, i) ==
    IF i > Len(field_names) \/ i > Len(new_field_names) THEN Return(S, None)
    ELSE LET field_name == field_names[i]
             new_field_name == new_field_names[i]
             named == validate_field_name(new_field_name, S.d.media_type,
                                          _is_frames_doc(cls))
         IN IF field_name \notin DOMAIN S.f[cls]
            THEN Raise(S, Err("AttributeError", "does not exist", <<field_name>>))
            ELSE IF new_field_name \in DOMAIN S.f[cls]
            THEN Raise(S, Err("ValueError", "already exists", <<new_field_name>>))
            ELSE IF is_group_field(S.f[cls][field_name])
            THEN Raise(S, Err("ValueError", "cannot clone group field", <<field_name>>))
            ELSE IF ~Ok(named) THEN Raise(S, named)
            ELSE _clone_validate(S, cls, field_names, new_field_names, i + 1)

RECURSIVE _clone_schemas(_, _, _, _, _)
\* The loop of lines 547-548 from pair i on; `out` is the outcome of the steps
\* made so far (an error ends the loop)
_clone_schemas(out, cls, field_names, new_field_names, i) ==
    IF ~Ok(out.err) \/ i > Len(field_names) \/ i > Len(new_field_names) THEN out
    ELSE _clone_schemas(
           _clone_field_schema(out.S, cls, field_names[i], new_field_names[i]),
           cls, field_names, new_field_names, i + 1)

\* line 550, for the outcome r of the storage command and the loop
_clone_cloned(r) == IF ~Ok(r.err) THEN r ELSE Return(save(r.S), None)

\* lines 540-550, for the outcome v of the validation loop
_clone_validated(v, cls, field_names, new_field_names, ok) ==
    IF ~Ok(v.err) THEN v
    ELSE _clone_cloned(
           _clone_schemas(_clone_fields_simple(v.S, cls, field_names, new_field_names, ok),
                          cls, field_names, new_field_names, 1))

_clone_fields(S, cls, field_names, new_field_names, ok) ==
    _clone_validated(_clone_validate(S, cls, field_names, new_field_names, 1),
                     cls, field_names, new_field_names, ok)

(***************************************************************************)
(* DatasetMixin._clear_fields (sample_collection=None)                     *)
(***************************************************************************)
\* Faulty variant of _clear_fields: the names are not looked up in the
\* registry before the storage command.
_clear_fields_unchecked(S, cls, field_names, ok) ==
    _clear_fields_simple(S, cls, field_names, ok)

_clear_fields(S, cls, field_names, ok) ==
    IF \E i \in DOMAIN field_names : field_names[i] \notin DOMAIN S.f[cls]
    THEN LET i == CHOOSE i \in DOMAIN field_names :
                     /\ field_names[i] \notin DOMAIN S.f[cls]
                     /\ \A j \in 1..(i - 1) : field_names[j] \in DOMAIN S.f[cls]
         IN Raise(S, Err("AttributeError", "does not exist", <<field_names[i]>>))
    ELSE _clear_fields_simple(S, cls, field_names, ok)

(***************************************************************************)
(* DatasetMixin._delete_fields                                             *)
(***************************************************************************)
\* The body of the loop of lines 623-643 for one name, given default_fields:
\* the error handle_error raises (or NoErr) and del_fields afterwards
_delete_select_one(S, cls, field_name, default_fields, error_level, del_fields) ==
    IF field_name \in default_fields
    THEN [err |-> handle_error(Err("ValueError", "cannot delete default field",
                                   <<field_name>>), error_level),
          del_fields |-> del_fields]
    ELSE IF field_name \notin DOMAIN S.f[cls]
    THEN [err |-> handle_error(Err("AttributeError", "does not exist",
                                   <<field_name>>), error_level),
          del_fields |-> del_fields]
    ELSE [err |-> NoErr, del_fields |-> Append(del_fields, field_name)]

RECURSIVE _delete_select(_, _, _, _, _, _)
\* The loop of lines 623-643 from name i on; `sel` is the list del_fields so
\* far, with the error handle_error raised, if it did
_delete_select(S, cls, field_names, error_level, i, sel) ==
    IF ~Ok(sel.err) \/ i > Len(field_names) THEN sel
    ELSE _delete_select(S, cls, field_names, error_level, i + 1,
                        _delete_select_one(S, cls, field_names[i],
                                           _get_default_fields(cls, <<S.d>>),
                                           error_level, sel.del_fields))

RECURSIVE _delete_schemas(_, _, _, _)
\* The loop of lines 650-651 from name i on; `out` is the outcome of the steps
\* made so far (an error ends the loop)
_delete_schemas(out, cls, del_fields, i) ==
    IF ~Ok(out.err) \/ i > Len(del_fields) THEN out
    ELSE _delete_schemas(_delete_field_schema(out.S, cls, del_fields[i]),
                         cls, del_fields, i + 1)

\* lines 653-654, for the outcome r of the storage command and the loop
_delete_deleted(r, field_names) ==
    IF ~Ok(r.err) THEN r ELSE Return(save(_delete_paths(r.S, field_names)), None)

\* lines 645-654, for the result sel of the loop of lines 623-643
_delete_selected(S, cls, field_names, sel, ok) ==
    IF ~Ok(sel.err) THEN Raise(S, sel.err)
    ELSE IF sel.del_fields = <<>> THEN Return(S, None)
    ELSE _delete_deleted(
           _delete_schemas(_delete_fields_simple(S, cls, sel.del_fields, ok),
                           cls, sel.del_fields, 1),
           field_names)

_delete_fields(S, cls, field_names, error_level, ok) ==
    _delete_selected(S, cls, field_names,
                     _delete_select(S, cls, field_names, error_level, 1,
                                    [err |-> NoErr, del_fields |-> <<>>]),
                     ok)

(***************************************************************************)
(* The state machine.  A call runs to completion in one step (schema        *)
(* mutations are single-writer and synchronous) and leaves its arguments    *)
(* and outcome in `call`; Done is the caller taking the outcome.            *)
(***************************************************************************)
Idle == [op |-> None, cls |-> None, args |-> <<>>, err |-> NoErr, ret |-> None,
         updates |-> <<>>, saves |-> 0, designated |-> <<>>]

\* The fields declared beyond the by-construction ones, embedded ones included.
RECURSIVE Size(_)
Size(fields) ==
    IF fields = <<>> THEN 0
    ELSE 1 + Size(fields[1].fields)
           + (IF fields[1].field = <<>> THEN 0 ELSE Size(fields[1].field[1].fields))
           + Size(Tail(fields))

Declared(S, cls) == [i \in DOMAIN S.o[cls] |-> S.f[cls][S.o[cls][i]]]

Added(S) ==
    Size(Declared(S, "Sample")) + Size(Declared(S, "Frame"))
      - Len(BaseFields("Sample")) - Len(BaseFields("Frame"))

\* The inputs of the calls.
Flags ==
    { <<TRUE, TRUE, TRUE>>, <<FALSE, TRUE, TRUE>>, <<TRUE, FALSE, TRUE>>,
      <<TRUE, TRUE, FALSE>> }

AddInputs ==
    { <<"a", "int">>, <<"b", "oid">>, <<"_b", "oid">>, <<"id", "int">>, <<"e", "doc">>,
      <<"e.x", "int">>, <<"g2", "group">>, <<"g", "group">>,
      <<"a.x", "int">>, <<"e.x.y", "int">>, <<"l", "list">>, <<"l", "ilist">>,
      <<"l.x", "int">>, <<"_id", "oid">>, <<"id", "doc">>, <<"e.id", "int">> }

\* The schemas merged, as (path, field) items
Schemas ==
    { << <<"a", create_field("a", "raw")>>, <<"b", create_field("b", "oid")>> >>,
      << <<"b", create_field("b", "oid")>>, <<"e.x", create_field("x", "int")>> >>,
      << <<"e.x", create_field("x", "int")>>, <<"a", create_field("a", "raw")>> >>,
      << <<"a", create_field("a", "stored")>> >> }

OldNames == {"a", "b", "g", "filepath"}

NewNames == {"c", "_c"}

\* The (field_names, new_field_names) batches: every old name to every new
\* name, a new name that exists, a new name given twice, an old name given
\* twice, a swap, and the group field followed by a pair that cannot pass.
Batches ==
    { << <<o>>, <<n>> >> : o \in OldNames, n \in NewNames }
      \cup { << <<"a">>, <<"filepath">> >>,
             << <<"a", "b">>, <<"c", "c">> >>,
             << <<"a", "a">>, <<"c", "c">> >>,
             << <<"a", "b">>, <<"b", "a">> >>,
             << <<"g", "b">>, <<"c", "b">> >> }

NameLists ==
    { <<o>> : o \in OldNames }
      \cup { <<"a", "b">>, <<"a", "a">>, <<"filepath", "a">>, <<"a", "g">> }

\* The frame-level class takes add_field calls and the batches of one name.
ForClass(cls, names) == cls = "Sample" \/ Len(names) = 1

\* A storage command is only said to fail in a call that issues one.
Reached(out, ok) == ok \/ out.err.type = "StorageError"

\* The dataset as constructed: the by-construction fields, and for a grouped
\* dataset its group field "g".
InitFields(cls, media_type) ==
    IF media_type = GROUP /\ ~_is_frames_doc(cls)
    THEN Append(BaseFields(cls), create_field("g", "group"))
    ELSE BaseFields(cls)

InitDoc(media_type) ==
    [media_type |-> media_type,
     group_field |-> IF media_type = GROUP THEN "g" ELSE None,
     sample_fields |-> [i \in DOMAIN InitFields("Sample", media_type) |->
                           from_field(InitFields("Sample", media_type)[i])],
     frame_fields |-> [i \in DOMAIN InitFields("Frame", media_type) |->
                          from_field(InitFields("Frame", media_type)[i])],
     app_config |-> {"filepath"}]

\* The registries hold at most MaxFields added fields, and one record class
\* is mutated at a time: the other holds its by-construction fields.
RECURSIVE DocSize(_)
DocSize(docs) ==
    IF docs = <<>> THEN 0 ELSE 1 + DocSize(docs[1].fields) + DocSize(Tail(docs))

Mirrored(S) ==
    DocSize(S.d.sample_fields) + DocSize(S.d.frame_fields)
      - Len(BaseFields("Sample")) - Len(BaseFields("Frame"))

Bounded(S, cls) ==
    /\ Added(S) <= MaxFields
    /\ Mirrored(S) <= MaxFields
    /\ \A c \in Classes \ {cls} :
         /\ S.o[c] = [i \in DOMAIN InitFields(c, S.d.media_type) |->
                         InitFields(c, S.d.media_type)[i].name]
         /\ Len(S.d[_fields_attr(c)]) = Len(S.o[c])

Finish(op, cls, args, out) ==
    /\ Bounded(out.S, cls)
    /\ _fields' = out.S.f
    /\ _fields_ordered' = out.S.o
    /\ dataset_doc' = out.S.d
    /\ db_dataset_doc' = out.S.db
    /\ call' = [op |-> op, cls |-> cls, args |-> args, err |-> out.err, ret |-> out.ret,
                updates |-> out.S.updates, saves |-> out.S.saves,
                designated |-> out.S.designated]
    /\ unbacked' = IF out.S.designated # <<>> THEN out.S.updates = <<>> ELSE unbacked
    /\ threads' = threads

MergeFieldSchema ==
    /\ call.op = None
    /\ \E cls \in {"Sample"}, schema \in Schemas, fl \in Flags :
         \E out \in {merge_field_schema(State, cls, schema, fl[1], fl[2], fl[3])} :
            Finish("merge_field_schema", cls, <<schema, fl[1], fl[2], fl[3]>>, out)

AddField ==
    /\ call.op = None
    /\ \E cls \in Classes, in \in AddInputs, fl \in Flags :
         \E out \in {add_field(State, cls, in[1], in[2], fl[1], fl[2], fl[3])} :
            Finish("add_field", cls, <<in[1], in[2], fl[1], fl[2], fl[3]>>, out)

RenameFields ==
    /\ call.op = None
    /\ \E cls \in Classes, b \in Batches, ok \in BOOLEAN :
         /\ ForClass(cls, b[1])
         /\ \E out \in {_rename_fields(State, cls, b[1], b[2], ok)} :
               /\ Reached(out, ok)
               /\ Finish("_rename_fields", cls, <<b[1], b[2], ok>>, out)

CloneFields ==
    /\ call.op = None
    /\ \E cls \in Classes, b \in Batches, ok \in BOOLEAN :
         /\ ForClass(cls, b[1])
         /\ \E out \in {_clone_fields(State, cls, b[1], b[2], ok)} :
               /\ Reached(out, ok)
               /\ Finish("_clone_fields", cls, <<b[1], b[2], ok>>, out)

ClearFields ==
    /\ call.op = None
    /\ \E cls \in Classes, names \in NameLists, ok \in BOOLEAN :
         /\ ForClass(cls, names)
         /\ \E out \in {_clear_fields(State, cls, names, ok)} :
               /\ Reached(out, ok)
               /\ Finish("_clear_fields", cls, <<names, ok>>, out)

DeleteFields ==
    /\ call.op = None
    /\ \E cls \in Classes, names \in NameLists, error_level \in {0, 1, 2}, ok \in BOOLEAN :
         /\ ForClass(cls, names)
         /\ \E out \in {_delete_fields(State, cls, names, error_level, ok)} :
               /\ Reached(out, ok)
               /\ Finish("_delete_fields", cls, <<names, error_level, ok>>, out)

Done ==
    /\ call.op # None
    /\ call' = Idle
    /\ UNCHANGED <<_fields, _fields_ordered, dataset_doc, db_dataset_doc, unbacked, threads>>

Init ==
    \E media_type \in {VIDEO, GROUP} :
        /\ _fields = [cls \in Classes |->
                        LET fs == InitFields(cls, media_type)
                        IN [n \in {fs[i].name : i \in DOMAIN fs} |->
                              fs[CHOOSE i \in DOMAIN fs : fs[i].name = n]]]
        /\ _fields_ordered = [cls \in Classes |->
                                [i \in DOMAIN InitFields(cls, media_type) |->
                                    InitFields(cls, media_type)[i].name]]
        /\ dataset_doc = InitDoc(media_type)
        /\ db_dataset_doc = InitDoc(media_type)
        /\ call = Idle
        /\ unbacked = FALSE
        /\ threads = <<>>

Next ==
    \/ MergeFieldSchema
    \/ AddField
    \/ RenameFields
    \/ CloneFields
    \/ ClearFields
    \/ DeleteFields
    \/ Done

Spec == Init /\ [][Next]_vars

(***************************************************************************)
(* cls._declare_field called on its own, as the loaders of a record class  *)
(* do: descriptors declared under new names and under registered ones.     *)
(***************************************************************************)
DeclareInputs ==
    { create_field(n, k) : n \in {"a", "filepath"}, k \in {"int", "raw", "oid"} }

DeclareField ==
    /\ call.op = None
    /\ \E cls \in Classes, field \in DeclareInputs :
         \E out \in {Return(_declare_field(State, cls, field), None)} :
            Finish("_declare_field", cls, <<field>>, out)

NextDeclare ==
    \/ DeclareField
    \/ Done

SpecDeclare == Init /\ [][NextDeclare]_vars

(***************************************************************************)
(* Document._extract_extra_updates: the updates of an instance whose list  *)
(* fields were filtered by a view.  `self` is the in-memory document, a    *)
(* dict (items) of embedded documents (dicts) whose values are lists of    *)
(* elements; update_doc is a dict of operator -> dict of key -> value.     *)
(***************************************************************************)
RECURSIVE lstrip(_, _)
\* s.lstrip(c)
lstrip(s, c) ==
    IF Len(s) > 0 /\ SubSeq(s, 1, 1) = c THEN lstrip(SubSeq(s, 2, Len(s)), c) ELSE s

RECURSIVE count(_, _)
\* s.count(c), for a character c
count(s, c) ==
    IF Len(s) = 0 THEN 0
    ELSE (IF SubSeq(s, 1, 1) = c THEN 1 ELSE 0) + count(SubSeq(s, 2, Len(s)), c)

IsDigit(ch) == \E d \in 1..10 : SubSeq("0123456789", d, d) = ch

DigitValue(ch) == (CHOOSE d \in 1..10 : SubSeq("0123456789", d, d) = ch) - 1

RECURSIVE digits_value(_, _)
digits_value(s, acc) ==
    IF Len(s) = 0 THEN acc
    ELSE digits_value(SubSeq(s, 2, Len(s)), 10 * acc + DigitValue(SubSeq(s, 1, 1)))

\* int(s): decimal digits with an optional sign; anything else raises
int(s) ==
    LET body == IF Len(s) > 0 /\ SubSeq(s, 1, 1) \in {"-", "+"} THEN SubSeq(s, 2, Len(s))
                ELSE s
    IN IF Len(body) = 0 \/ \E i \in 1..Len(body) : ~IsDigit(SubSeq(body, i, i))
       THEN [err |-> Err("ValueError", "invalid literal for int()", <<s>>), val |-> 0]
       ELSE [err |-> NoErr,
             val |-> IF SubSeq(s, 1, 1) = "-" THEN 0 - digits_value(body, 0)
                     ELSE digits_value(body, 0)]

\* d[k] of a dict held as items
DictGet(items, k) == items[CHOOSE i \in DOMAIN items : items[i][1] = k][2]

RECURSIVE DictDel(_, _)
\* del d[k]
DictDel(items, k) ==
    IF items = <<>> THEN <<>>
    ELSE IF items[1][1] = k THEN Tail(items)
    ELSE <<items[1]>> \o DictDel(Tail(items), k)

RECURSIVE getitems(_, _)
\* el = self; for field_name in chunks: el = el[field_name]
getitems(el, chunks) ==
    IF chunks = <<>> THEN [err |-> NoErr, el |-> el]
    ELSE IF ~HasKey(el, chunks[1])
    THEN [err |-> Err("KeyError", "no such field", <<chunks[1]>>), el |-> el]
    ELSE getitems(DictGet(el, chunks[1]), Tail(chunks))

\* el[idx] of a python list: a negative index counts from the end
listitem(el, idx) ==
    LET at == IF idx < 0 THEN Len(el) + idx + 1 ELSE idx + 1
    IN IF at \in 1..Len(el) THEN [err |-> NoErr, el |-> el[at]]
       ELSE [err |-> Err("IndexError", "list index out of range", <<>>), el |-> <<>>]

\* self._parse_id_and_array_filter(list_element_field, filtered_field): the
\* error raised, or (el._id, el_filter)
_parse_id_and_array_filter(self, list_element_field, filtered_field) ==
    LET got == getitems(self, split(filtered_field))
        el_fields == split(lstrip(SubSeq(list_element_field, Len(filtered_field) + 1,
                                         Len(list_element_field)), "."))
        idx == int(el_fields[1])
        item == listitem(got.el, idx.val)
        el_filter == join(<<filtered_field, "$[element]">> \o Tail(el_fields))
    IN IF ~Ok(got.err) THEN [err |-> got.err, id |-> None, el_filter |-> None]
       ELSE IF ~Ok(idx.err) THEN [err |-> idx.err, id |-> None, el_filter |-> None]
       ELSE IF ~Ok(item.err) THEN [err |-> item.err, id |-> None, el_filter |-> None]
       ELSE [err |-> NoErr, id |-> item.el._id, el_filter |-> el_filter]

\* Faulty variant of _is_root_or_index: the separating dot is not stripped.
_is_root_or_index_unstripped(k, ff) ==
    startswith(k, ff) /\ count(SubSeq(k, Len(ff) + 1, Len(k)), ".") = 0

\* The test of lines 1143-1145 on a key and a filtered field
_is_root_or_index(k, ff) ==
    startswith(k, ff) /\ count(lstrip(SubSeq(k, Len(ff) + 1, Len(k)), "."), ".") = 0

\* The first (k, ff) for which the test of lines 1143-1145 holds, the dicts
\* of update_doc, their keys and filtered_fields taken in order
_illegal_keys(update_doc, filtered_fields) ==
    [i \in DOMAIN update_doc |->
        SelectSeq(Keys(update_doc[i][2]),
                  LAMBDA k : \E j \in DOMAIN filtered_fields :
                                 _is_root_or_index(k, filtered_fields[j]))]

\* The first ff of filtered_fields that k starts with (lines 1156-1160)
_filtered_field_of(k, filtered_fields) ==
    IF \E j \in DOMAIN filtered_fields : startswith(k, filtered_fields[j])
    THEN <<filtered_fields[CHOOSE j \in DOMAIN filtered_fields :
                              /\ startswith(k, filtered_fields[j])
                              /\ \A h \in 1..(j - 1) : ~startswith(k, filtered_fields[h])]>>
    ELSE <<>>

RECURSIVE _extract_set(_, _, _, _, _)
\* The loop of lines 1155-1171 over d.items() from item i on: the error
\* raised, extra_updates and del_keys
_extract_set(self, d, filtered_fields, i, acc) ==
    IF ~Ok(acc.err) \/ i > Len(d) THEN acc
    ELSE LET k == d[i][1]
             v == d[i][2]
             filtered_field == _filtered_field_of(k, filtered_fields)
         IN IF filtered_field = <<>>
            THEN _extract_set(self, d, filtered_fields, i + 1, acc)
            ELSE LET parsed == _parse_id_and_array_filter(self, k, filtered_field[1])
                 IN _extract_set(self, d, filtered_fields, i + 1,
                       IF ~Ok(parsed.err) THEN [acc EXCEPT !.err = parsed.err]
                       ELSE [acc EXCEPT
                               !.extra_updates =
                                  Append(@, << << <<"$set", << <<parsed.el_filter, v>> >> >> >>,
                                               parsed.id >>),
                               !.del_keys = Append(@, k)])

RECURSIVE DictDelAll(_, _)
\* for k in del_keys: del d[k]
DictDelAll(d, del_keys) ==
    IF del_keys = <<>> THEN d ELSE DictDelAll(DictDel(d, del_keys[1]), Tail(del_keys))

\* lines 1172-1178, for the result x of the loop of lines 1155-1171
_extract_extracted(update_doc, x) ==
    IF ~Ok(x.err) THEN [err |-> x.err, update_doc |-> update_doc, extra_updates |-> <<>>]
    ELSE LET d == DictDelAll(DictGet(update_doc, "$set"), x.del_keys)
         IN [err |-> NoErr,
             update_doc |-> IF d = <<>> THEN DictDel(update_doc, "$set")
                            ELSE DictSet(update_doc, "$set", d),
             extra_updates |-> x.extra_updates]

\* lines 1151-1178, for the keys the check of lines 1139-1149 found
_extract_checked(self, update_doc, filtered_fields, illegal) ==
    IF filtered_fields # <<>> /\ \E i \in DOMAIN illegal : illegal[i] # <<>>
    THEN [err |-> Err("ValueError", "modifying root of filtered list field",
                      <<illegal[CHOOSE i \in DOMAIN illegal :
                                   /\ illegal[i] # <<>>
                                   /\ \A j \in 1..(i - 1) : illegal[j] = <<>>][1]>>),
          update_doc |-> update_doc, extra_updates |-> <<>>]
    ELSE IF filtered_fields # <<>> /\ HasKey(update_doc, "$set")
    THEN _extract_extracted(
           update_doc,
           _extract_set(self, DictGet(update_doc, "$set"), filtered_fields, 1,
                        [err |-> NoErr, extra_updates |-> <<>>, del_keys |-> <<>>]))
    ELSE [err |-> NoErr, update_doc |-> update_doc, extra_updates |-> <<>>]

\* self._extract_extra_updates(update_doc, filtered_fields): the error
\* raised, update_doc as the call leaves it, and the list it returns
_extract_extra_updates(self, update_doc, filtered_fields) ==
    _extract_checked(self, update_doc, filtered_fields,
                     _illegal_keys(update_doc, filtered_fields))

\* The inputs of _extract_extra_updates: instances with the label lists
\* dets.detections, dets.detections2 and segs.polylines.
Element(id) == [_id |-> id]

Selves ==
    { << <<"dets", << <<"detections", <<Element("id0"), Element("id1")>> >>,
                      <<"detections2", <<Element("id7"), Element("id8"), Element("id9")>> >> >> >>,
         <<"segs", << <<"polylines", <<Element("id5")>> >> >> >> >>,
      << <<"dets", << <<"detections", <<Element("id0"), Element("id1"), Element("id2")>> >>,
                      <<"detections2", <<Element("id7")>> >> >> >>,
         <<"segs", << <<"polylines", <<Element("id5")>> >> >> >> >> }

FilteredFields == { <<>>, <<"dets.detections">>, <<"dets.detections", "segs.polylines">> }

UpdateKeys ==
    { "dets.detections", "dets.detections.1", "dets.detections.1.label",
      "dets.detections.0.label", "dets.detections.1.attrs.x", "segs.polylines.0.label",
      "filepath", "dets.detections2.0.label", "dets.detections_x" }

SetDicts ==
    { <<>> } \cup { << <<k, "v1">> >> : k \in UpdateKeys }
      \cup { << <<k[1], "v1">>, <<k[2], "v2">> >> :
               k \in {kk \in UpdateKeys \X UpdateKeys : kk[1] # kk[2]} }

IncDicts ==
    { << <<k, 1>> >> : k \in {"dets.detections.1.count", "dets.detections.1", "count"} }

UpdateDocs ==
    { << <<"$set", d>> >> : d \in SetDicts }
      \cup { << <<"$inc", d>> >> : d \in IncDicts }
      \cup { << <<"$set", << <<k, "v1">> >> >>, <<"$inc", d>> >> :
               k \in UpdateKeys, d \in IncDicts }

ExtractExtraUpdates ==
    /\ call.op = None
    /\ \E self \in Selves, update_doc \in UpdateDocs, filtered_fields \in FilteredFields :
         \E out \in {_extract_extra_updates(self, update_doc, filtered_fields)} :
            call' = [op |-> "_extract_extra_updates", cls |-> None,
                     args |-> <<self, update_doc, filtered_fields>>,
                     err |-> out.err, ret |-> out.extra_updates,
                     update_doc |-> out.update_doc,
                     updates |-> <<>>, saves |-> 0, designated |-> <<>>]
    /\ UNCHANGED <<_fields, _fields_ordered, dataset_doc, db_dataset_doc, unbacked, threads>>

NextExtract ==
    \/ ExtractExtraUpdates
    \/ Done

SpecExtract == Init /\ [][NextExtract]_vars

(***************************************************************************)
(* Concurrent callers.  The mixin takes no lock: two threads that call     *)
(* schema mutations interleave at the calls a mutation makes.  A thread's  *)
(* step is the validation part of its call (the loop over the mapping or   *)
(* the batch), the storage command, one _add_field_schema /                *)
(* _rename_field_schema / _delete_field_schema call, or the final save.    *)
(***************************************************************************)
Thread(op, cls, args) ==
    [op |-> op, cls |-> cls, args |-> args, pc |-> "check", work |-> <<>>, i |-> 1,
     err |-> NoErr, ret |-> None, overlapped |-> FALSE]

\* The thread's call has returned or raised.
Ended(th, err, ret) == [th EXCEPT !.pc = "done", !.err = err, !.ret = ret]

\* A step result: the program state and the thread afterwards.
Stepped(S, th) == [S |-> S, th |-> th]

\* Faulty variant of _check_merged: the new fields found before a path failed
\* its check are added before the error is raised.
_check_merged_partial(S, th, m) ==
    IF ~Ok(m.err) THEN Stepped(_add_all(Return(S, None), th.cls, m.new).S, Ended(th, m.err, None))
    ELSE IF m.new # <<>> /\ ~th.args[2]
    THEN Stepped(S, Ended(th, Err("ValueError", "fields do not exist", Keys(m.new)), None))
    ELSE IF m.new = <<>> THEN Stepped(S, Ended(th, NoErr, "False"))
    ELSE Stepped(S, [th EXCEPT !.pc = "schema", !.work = m.new])

\* merge_field_schema up to line 238, for the result m of the loop of 220-229
_check_merged(S, th, m) ==
    IF ~Ok(m.err) THEN Stepped(S, Ended(th, m.err, None))
    ELSE IF m.new # <<>> /\ ~th.args[2]
    THEN Stepped(S, Ended(th, Err("ValueError", "fields do not exist", Keys(m.new)), None))
    ELSE IF m.new = <<>> THEN Stepped(S, Ended(th, NoErr, "False"))
    ELSE Stepped(S, [th EXCEPT !.pc = "schema", !.work = m.new])

\* _rename_fields up to line 450, for the outcome v of the validation loop
_check_renamed(th, v) ==
    IF ~Ok(v.err) THEN Stepped(v.S, Ended(th, v.err, None))
    ELSE Stepped(v.S, [th EXCEPT !.pc = "store"])

\* _delete_fields up to line 646, for the result sel of the loop of 623-643
_check_deleted(S, th, sel) ==
    IF ~Ok(sel.err) THEN Stepped(S, Ended(th, sel.err, None))
    ELSE IF sel.del_fields = <<>> THEN Stepped(S, Ended(th, NoErr, None))
    ELSE Stepped(S, [th EXCEPT !.pc = "store", !.work = sel.del_fields])

_check_step(S, th) ==
    CASE th.op = "merge_field_schema" ->
           _check_merged(S, th, _merge_all(S, th.cls, th.args[1], th.args[4], th.args[3],
                                           [err |-> NoErr, new |-> <<>>]))
      [] th.op = "_rename_fields" ->
           _check_renamed(th, _rename_validate(S, th.cls, th.args[1], th.args[2], 1))
      [] th.op = "_delete_fields" ->
           _check_deleted(S, th, _delete_select(S, th.cls, th.args[1], th.args[2], 1,
                                                [err |-> NoErr, del_fields |-> <<>>]))

\* The storage command of a rename (line 452) or a delete (line 648)
_store_step(S, th) ==
    CASE th.op = "_rename_fields" ->
           _rename_fields_simple(S, th.cls, th.args[1], th.args[2], TRUE)
      [] th.op = "_delete_fields" ->
           _delete_fields_simple(S, th.cls, th.work, TRUE)

\* One call of the loop of lines 240-241, 454-455 or 650-651
_schema_step(S, th) ==
    CASE th.op = "merge_field_schema" ->
           _add_field_schema(S, th.cls, th.work[th.i][1], th.work[th.i][2])
      [] th.op = "_rename_fields" ->
           _rename_field_schema(S, th.cls, th.args[1][th.i], th.args[2][th.i])
      [] th.op = "_delete_fields" ->
           _delete_field_schema(S, th.cls, th.work[th.i])

\* The number of calls the loop makes
_schema_steps(th) ==
    IF th.op = "_rename_fields" THEN Len(th.args[1]) ELSE Len(th.work)

\* Lines 243-245, 457-458 or 653-654
_save_step(S, th) ==
    CASE th.op = "merge_field_schema" -> Return(save(S), "True")
      [] th.op = "_rename_fields" ->
           Return(save(_rename_paths(S, th.args[1], th.args[2])), None)
      [] th.op = "_delete_fields" ->
           Return(save(_delete_paths(S, th.args[1])), None)

\* The state's variables take the values of S.
Write(S) ==
    /\ _fields' = S.f
    /\ _fields_ordered' = S.o
    /\ dataset_doc' = S.d
    /\ db_dataset_doc' = S.db

\* Another thread is in the middle of its call.
InProgress(t) == \E u \in DOMAIN threads : u # t /\ threads[u].pc \in {"store", "schema", "save"}

Moved(t, th) ==
    /\ threads' = [threads EXCEPT ![t] = [th EXCEPT !.overlapped = @ \/ InProgress(t)]]
    /\ UNCHANGED <<call, unbacked>>

CheckStep ==
    \E t \in DOMAIN threads :
        /\ threads[t].pc = "check"
        /\ \E r \in {_check_step(State, threads[t])} :
              /\ Write(r.S)
              /\ Moved(t, r.th)

StoreStep ==
    \E t \in DOMAIN threads :
        /\ threads[t].pc = "store"
        /\ \E out \in {_store_step(State, threads[t])} :
              /\ Write(out.S)
              /\ Moved(t, IF Ok(out.err) THEN [threads[t] EXCEPT !.pc = "schema"]
                          ELSE Ended(threads[t], out.err, None))

SchemaStep ==
    \E t \in DOMAIN threads :
        /\ threads[t].pc = "schema"
        /\ \E out \in {_schema_step(State, threads[t])} :
              /\ Write(out.S)
              /\ Moved(t, IF ~Ok(out.err) THEN Ended(threads[t], out.err, None)
                          ELSE IF threads[t].i < _schema_steps(threads[t])
                          THEN [threads[t] EXCEPT !.i = @ + 1]
                          ELSE [threads[t] EXCEPT !.pc = "save"])

SaveStep ==
    \E t \in DOMAIN threads :
        /\ threads[t].pc = "save"
        /\ \E out \in {_save_step(State, threads[t])} :
              /\ Write(out.S)
              /\ Moved(t, Ended(threads[t], out.err, out.ret))

\* The mutations the threads call: merges of new, marked-identifier, embedded
\* and mismatching fields, a rename and a delete of the field "p", a delete
\* of the embedded field "e" and a rename of the group field.
ThreadSchemas ==
    { << <<"a", create_field("a", "raw")>> >>,
      << <<"_b", create_field("_b", "oid")>> >>,
      << <<"a", create_field("a", "raw")>>, <<"b", create_field("b", "oid")>> >>,
      << <<"p", create_field("p", "oid")>> >>,
      << <<"a", create_field("a", "raw")>>, <<"e.x", create_field("x", "int")>> >> }

Mutations ==
    { Thread("merge_field_schema", cls, <<schema, TRUE, TRUE, TRUE>>) :
        cls \in Classes, schema \in ThreadSchemas }
      \cup { Thread("_rename_fields", cls, << <<"p">>, <<"c">> >>) : cls \in Classes }
      \cup { Thread("_rename_fields", "Sample", << <<"g">>, <<"c">> >>) }
      \cup { Thread("_delete_fields", cls, << <<"p">>, 0 >>) : cls \in Classes }
      \cup { Thread("_delete_fields", "Sample", << <<"e">>, 0 >>) }

\* The dataset the threads work on: as constructed, with an IntField "p"
\* added to the sample class and to the frame class and an embedded document
\* field "e" added to the sample class.
Constructed(media_type) ==
    [f |-> [cls \in Classes |->
              LET fs == InitFields(cls, media_type)
              IN [n \in {fs[i].name : i \in DOMAIN fs} |->
                    fs[CHOOSE i \in DOMAIN fs : fs[i].name = n]]],
     o |-> [cls \in Classes |->
              [i \in DOMAIN InitFields(cls, media_type) |-> InitFields(cls, media_type)[i].name]],
     d |-> InitDoc(media_type), db |-> InitDoc(media_type),
     updates |-> <<>>, saves |-> 0, designated |-> <<>>]

Prepared(media_type) ==
    [add_field(
       add_field(add_field(Constructed(media_type), "Sample", "p", "int", TRUE, TRUE, TRUE).S,
                 "Frame", "p", "int", TRUE, TRUE, TRUE).S,
       "Sample", "e", "doc", TRUE, TRUE, TRUE).S
       EXCEPT !.saves = 0]

InitConcurrent ==
    \E media_type \in {VIDEO, GROUP}, m1 \in Mutations, m2 \in Mutations :
        /\ _fields = Prepared(media_type).f
        /\ _fields_ordered = Prepared(media_type).o
        /\ dataset_doc = Prepared(media_type).d
        /\ db_dataset_doc = Prepared(media_type).db
        /\ call = Idle
        /\ unbacked = FALSE
        /\ threads = <<m1, m2>>

NextConcurrent ==
    \/ CheckStep
    \/ StoreStep
    \/ SchemaStep
    \/ SaveStep

SpecConcurrent == InitConcurrent /\ [][NextConcurrent]_vars

(***************************************************************************)
(* The collection path: embedded (dotted) fields are rewritten through a   *)
(* view of the sample collection.  The view is an external collaborator;   *)
(* the commands given to it are recorded, in order, with the storage       *)
(* commands: view(), set_field(path, expr), mongo(stages) and              *)
(* save(field_roots), which may fail (ok = FALSE) and then raises.         *)
(***************************************************************************)
\* sample_collection._FRAMES_PREFIX
_FRAMES_PREFIX == "frames."

\* s.rsplit(".", 1)
rsplit(s) ==
    IF Len(split(s)) = 1 THEN <<s>> ELSE <<join(Front(split(s))), Last(split(s))>>

\* The root of one path: "frames.root" for a path that starts with the frames
\* prefix, the first segment otherwise.
_root_field(field) ==
    IF Len(split(field)) >= 2 /\ split(field)[1] \o "." = _FRAMES_PREFIX
    THEN split(field)[1] \o "." \o split(field)[2]
    ELSE split(field)[1]

RECURSIVE _get_root_fields(_)
\* sample_collection._get_root_fields(fields): the roots, each once, in the
\* order of their first path
_get_root_fields(fields) ==
    IF fields = <<>> THEN <<>>
    ELSE LET roots == _get_root_fields(Front(fields))
             root == _root_field(Last(fields))
         IN IF root \in Range(roots) THEN roots ELSE Append(roots, root)

\* [prefix + f for f in names] for the frame-level class
_prefixed(cls, names) ==
    IF _is_frames_doc(cls) THEN [i \in DOMAIN names |-> _FRAMES_PREFIX \o names[i]]
    ELSE names

\* One command given to the view
view_command(S, op, expr) ==
    [S EXCEPT !.updates = Append(@, [coll |-> "sample_collection", op |-> op, expr |-> expr])]

\* The expression of lines 709-718 / 771-780 for one pair: F(leaf) when the
\* dotted prefix is unchanged, F("$" + field_name) otherwise
_field_expr(field_name, new_field_name) ==
    LET new_base == rsplit(new_field_name)[1]
        base == rsplit(field_name)[1]
        leaf == IF Len(split(field_name)) > 1 THEN rsplit(field_name)[2] ELSE ""
    IN IF new_base = base THEN leaf ELSE "$" \o field_name

RECURSIVE _set_fields(_, _, _)
\* The loop of view.set_field(new_field_name, expr, _allow_missing=True)
_set_fields(S, _field_names, _new_field_names) ==
    IF _field_names = <<>> THEN S
    ELSE view_command(_set_fields(S, Front(_field_names), Front(_new_field_names)),
                      "set_field",
                      <<Last(_new_field_names),
                        _field_expr(Last(_field_names), Last(_new_field_names))>>)

RECURSIVE _set_nulls(_, _)
\* The loop of view.set_field(field_name, None, _allow_missing=True)
_set_nulls(S, _field_names) ==
    IF _field_names = <<>> THEN S
    ELSE view_command(_set_nulls(S, Front(_field_names)), "set_field",
                      <<Last(_field_names), None>>)

\* view.save(field_roots)
view_save(S, field_roots, ok) ==
    IF ok THEN Return(view_command(S, "save", field_roots), None)
    ELSE Raise(S, Err("StorageError", "save", <<>>))

\* cls._handle_db_fields(...) of a batch, as the two lists
_db_names(S, cls, field_names, new_field_names, k) ==
    [i \in DOMAIN field_names |->
        _handle_db_fields(S, cls, field_names, new_field_names)[i][k]]

\* cls._rename_fields_collection(field_names, new_field_names, sample_collection)
_rename_fields_collection(S, cls, field_names, new_field_names, ok) ==
    IF field_names = <<>> THEN Return(S, None)
    ELSE LET _field_names == _prefixed(cls, _db_names(S, cls, field_names, new_field_names, 1))
             _new_field_names == _prefixed(cls, _db_names(S, cls, field_names, new_field_names, 2))
         IN view_save(view_command(_set_fields(view_command(S, "view", <<>>),
                                               _field_names, _new_field_names),
                                   "mongo", <<"$unset", _field_names>>),
                      _get_root_fields(_prefixed(cls, field_names)
                                         \o _prefixed(cls, new_field_names)),
                      ok)

\* Faulty variant of _clone_fields_collection: the roots of the source paths
\* are saved too.
_clone_fields_collection_saves_sources(S, cls, field_names, new_field_names, ok) ==
    IF field_names = <<>> THEN Return(S, None)
    ELSE LET _field_names == _prefixed(cls, _db_names(S, cls, field_names, new_field_names, 1))
             _new_field_names == _prefixed(cls, _db_names(S, cls, field_names, new_field_names, 2))
         IN view_save(_set_fields(view_command(S, "view", <<>>),
                                  _field_names, _new_field_names),
                      _get_root_fields(_prefixed(cls, field_names)
                                         \o _prefixed(cls, new_field_names)),
                      ok)

\* cls._clone_fields_collection(field_names, new_field_names, sample_collection)
_clone_fields_collection(S, cls, field_names, new_field_names, ok) ==
    IF field_names = <<>> THEN Return(S, None)
    ELSE LET _field_names == _prefixed(cls, _db_names(S, cls, field_names, new_field_names, 1))
             _new_field_names == _prefixed(cls, _db_names(S, cls, field_names, new_field_names, 2))
         IN view_save(_set_fields(view_command(S, "view", <<>>),
                                  _field_names, _new_field_names),
                      _get_root_fields(_prefixed(cls, new_field_names)),
                      ok)

\* cls._clear_fields_collection(field_names, sample_collection)
_clear_fields_collection(S, cls, field_names, ok) ==
    IF field_names = <<>> THEN Return(S, None)
    ELSE LET _field_names == _prefixed(cls, _db_names(S, cls, field_names, <<>>, 1))
         IN view_save(_set_nulls(view_command(S, "view", <<>>), _field_names),
                      _get_root_fields(_prefixed(cls, field_names)),
                      ok)

\* lines 479-484, for the outcome r of the rewriter: a dataset (not a view of
\* one) has its saved path references renamed and its document saved
_rename_embedded_saved(r, field_names, new_field_names, is_dataset) ==
    IF ~Ok(r.err) \/ ~is_dataset THEN r
    ELSE Return(save(_rename_paths(r.S, field_names, new_field_names)), None)

\* cls._rename_embedded_fields(field_names, new_field_names, sample_collection)
_rename_embedded_fields(S, cls, field_names, new_field_names, is_dataset, ok) ==
    _rename_embedded_saved(
        _rename_fields_collection(S, cls, field_names, new_field_names, ok),
        field_names, new_field_names, is_dataset)

\* cls._clone_embedded_fields(field_names, new_field_names, sample_collection)
_clone_embedded_fields(S, cls, field_names, new_field_names, ok) ==
    _clone_fields_collection(S, cls, field_names, new_field_names, ok)

\* cls._clear_embedded_fields(field_names, sample_collection)
_clear_embedded_fields(S, cls, field_names, ok) ==
    _clear_fields_collection(S, cls, field_names, ok)

\* The (field_names, new_field_names) batches of paths: a sub-field renamed
\* in its document, moved to another root, moved one level up, a top-level
\* field, two pairs of one root, two pairs of two roots, and the empty batch.
PathBatches ==
    { << <<>>, <<>> >>,
      << <<"e.x">>, <<"e.y">> >>,
      << <<"e.x">>, <<"f.x">> >>,
      << <<"e.x.v">>, <<"e.v">> >>,
      << <<"p">>, <<"q">> >>,
      << <<"id">>, <<"e.id">> >>,
      << <<"e.x", "e.z">>, <<"e.y", "e.w">> >>,
      << <<"e.x", "p">>, <<"f.x", "e.p">> >> }

PathLists ==
    { <<>>, <<"e.x">>, <<"e.x.v">>, <<"p">>, <<"id">>, <<"e.x", "e.z">>, <<"e.x", "p">>,
      <<"e.x", "f.x", "p">> }

\* The call leaves its arguments and outcome in `call`; the rewriters leave
\* the number of fields as it was, so no bound applies.
FinishRewrite(op, cls, args, out) ==
    /\ _fields' = out.S.f
    /\ _fields_ordered' = out.S.o
    /\ dataset_doc' = out.S.d
    /\ db_dataset_doc' = out.S.db
    /\ call' = [op |-> op, cls |-> cls, args |-> args, err |-> out.err, ret |-> out.ret,
                updates |-> out.S.updates, saves |-> out.S.saves,
                designated |-> out.S.designated]
    /\ UNCHANGED <<unbacked, threads>>

RenameEmbeddedFields ==
    /\ call.op = None
    /\ \E cls \in Classes, b \in PathBatches, is_dataset \in BOOLEAN, ok \in BOOLEAN :
         \E out \in {_rename_embedded_fields(State, cls, b[1], b[2], is_dataset, ok)} :
            /\ Reached(out, ok)
            /\ FinishRewrite("_rename_embedded_fields", cls, <<b[1], b[2], ok, is_dataset>>, out)

CloneEmbeddedFields ==
    /\ call.op = None
    /\ \E cls \in Classes, b \in PathBatches, ok \in BOOLEAN :
         \E out \in {_clone_embedded_fields(State, cls, b[1], b[2], ok)} :
            /\ Reached(out, ok)
            /\ FinishRewrite("_clone_embedded_fields", cls, <<b[1], b[2], ok>>, out)

ClearEmbeddedFields ==
    /\ call.op = None
    /\ \E cls \in Classes, names \in PathLists, ok \in BOOLEAN :
         \E out \in {_clear_embedded_fields(State, cls, names, ok)} :
            /\ Reached(out, ok)
            /\ FinishRewrite("_clear_embedded_fields", cls, <<names, ok>>, out)

\* The dataset the rewriters work on: a field "p" on both classes and an
\* embedded document "e" on the sample class.
InitCollection ==
    \E media_type \in {VIDEO, GROUP} :
        /\ _fields = Prepared(media_type).f
        /\ _fields_ordered = Prepared(media_type).o
        /\ dataset_doc = Prepared(media_type).d
        /\ db_dataset_doc = Prepared(media_type).db
        /\ call = Idle
        /\ unbacked = FALSE
        /\ threads = <<>>

NextCollection ==
    \/ RenameEmbeddedFields
    \/ CloneEmbeddedFields
    \/ ClearEmbeddedFields
    \/ Done

SpecCollection == InitCollection /\ [][NextCollection]_vars

(***************************************************************************)
(* Properties.                                                             *)
(***************************************************************************)
BatchOps == {"_rename_fields", "_clone_fields", "_delete_fields"}

MergeOps == {"merge_field_schema", "add_field"}

\* The registry, ordered names and dataset document (in memory and saved)
\* are the same after the step as before it.
Untouched ==
    /\ _fields' = _fields
    /\ _fields_ordered' = _fields_ordered
    /\ dataset_doc' = dataset_doc
    /\ db_dataset_doc' = db_dataset_doc

\* The Schema Document's field list of a class.
field_docs_of(doc, cls) == doc[_fields_attr(cls)]

\* C1: for every record class, the set of keys of _fields equals the set of
\* names in _fields_ordered, in every state reached by merge/add, rename,
\* clone and delete calls (whether they succeed or fail).
C1_RegistryKeysAreOrderedNames ==
    \A cls \in Classes : DOMAIN _fields[cls] = Range(_fields_ordered[cls])

\* C1 witness: a delete has removed a field while another added field stays.
C1_Witness ==
    /\ call.op = "_delete_fields"
    /\ Ok(call.err)
    /\ call.saves = 1
    /\ Len(_fields_ordered[call.cls]) > Len(BaseFields(call.cls))

\* The mirror relation of C2 for one class: every registry name has exactly
\* one entry of the Schema Document's field list, with the descriptor's name
\* and storage name, and every entry's name is in the registry.
Mirrors(fields, field_docs) ==
    /\ \A n \in DOMAIN fields :
         /\ Cardinality({i \in DOMAIN field_docs : field_docs[i].name = n}) = 1
         /\ \A i \in DOMAIN field_docs :
               field_docs[i].name = n =>
                  /\ fields[n].name = n
                  /\ field_docs[i].db_field = fields[n].db_field
    /\ \A i \in DOMAIN field_docs : field_docs[i].name \in DOMAIN fields

\* C2: a successful merge/add, rename, clone or delete call on a class whose
\* Schema Document field list mirrors the registry leaves it mirroring the
\* registry: one entry per registered field, same name and storage name, and
\* no entry for an unregistered name.
C2_DocumentMirrorsRegistry ==
    [][ \A cls \in Classes :
          (/\ call'.op \in MergeOps \cup BatchOps
           /\ call'.cls = cls
           /\ Ok(call'.err)
           /\ Mirrors(_fields[cls], field_docs_of(dataset_doc, cls)))
          => Mirrors(_fields'[cls], field_docs_of(dataset_doc', cls)) ]_vars

\* The errors the validation loops of _rename_fields and _clone_fields raise.
ValidationErrors ==
    {"cannot rename default field", "does not exist", "already exists", "invalid name",
     "cannot clone group field"}

\* C3: a rename or clone batch that fails a validation check issues no
\* storage command and leaves the registry and the Schema Document, its
\* group-field designation included, as they were before the call.
C3_ValidationAllOrNothing ==
    [][ (/\ call'.op \in {"_rename_fields", "_clone_fields"}
         /\ call'.err.what \in ValidationErrors)
        => (call'.updates = <<>> /\ Untouched) ]_vars

\* C4: the saved Schema Document takes a new group-field designation only
\* from a rename whose storage command has completed.
C4_SavedOnlyAfterStorage ==
    [][ db_dataset_doc'.group_field # db_dataset_doc.group_field => ~unbacked' ]_vars

\* The by-construction fields of a record class.
ByConstruction(cls) == Range(BaseFieldsOrdered(cls))

\* The Default Fields Set as the specification defines it: the
\* by-construction fields plus, for the sample class of a grouped dataset,
\* the group field.
DefaultFieldsSet(cls) ==
    ByConstruction(cls)
      \cup (IF dataset_doc.media_type = GROUP /\ cls = "Sample"
            THEN {dataset_doc.group_field} ELSE {})

\* The names of the batch of the call just made.
field_names_of(c) == c.args[1]

\* The registry of cls holds n before and after the step, with the same descriptor.
Kept(cls, n) ==
    n \in DOMAIN _fields[cls] => (n \in DOMAIN _fields'[cls] /\ _fields'[cls][n] = _fields[cls][n])

\* C5 as stated: no rename and no delete call renames or removes a member of
\* the Default Fields Set (group field of a grouped dataset included); a
\* rename naming one fails, a delete naming one fails at level 0.
C5_DefaultFieldsImmutable ==
    [][ \A cls \in Classes :
          (call'.op \in {"_rename_fields", "_delete_fields"} /\ call'.cls = cls)
          => /\ \A n \in DefaultFieldsSet(cls) : Kept(cls, n)
             /\ (/\ Range(field_names_of(call')) \cap DefaultFieldsSet(cls) # {}
                 /\ (call'.op = "_rename_fields" \/ call'.args[2] = 0))
                => ~Ok(call'.err) ]_vars

\* C5 amended: no rename and no delete call renames or removes a
\* by-construction field, and no delete call removes the field the Schema
\* Document designates as the group field of a grouped dataset's sample
\* class; a rename naming a by-construction field fails, and a delete naming
\* a protected field fails at level 0 and skips it at levels 1 and 2.  The
\* group field itself can be renamed.
C5_ProtectedFieldsKept ==
    [][ \A cls \in Classes :
          /\ (call'.op = "_rename_fields" /\ call'.cls = cls)
             => /\ \A n \in ByConstruction(cls) : Kept(cls, n)
                /\ Range(field_names_of(call')) \cap ByConstruction(cls) # {}
                   => ~Ok(call'.err)
          /\ (call'.op = "_delete_fields" /\ call'.cls = cls)
             => /\ \A n \in DefaultFieldsSet(cls) : Kept(cls, n)
                /\ (/\ Range(field_names_of(call')) \cap DefaultFieldsSet(cls) # {}
                    /\ call'.args[2] = 0)
                   => ~Ok(call'.err) ]_vars

\* C5 witness: a delete at level 1 or 2 named a by-construction field and a
\* user field, and completed: the default field was skipped.
C5_Witness ==
    /\ call.op = "_delete_fields"
    /\ call.args[2] \in {1, 2}
    /\ field_names_of(call) = <<"filepath", "a">>
    /\ Ok(call.err)
    /\ call.saves = 1
    /\ "filepath" \in DOMAIN _fields["Sample"]
    /\ "a" \notin DOMAIN _fields["Sample"]

\* The call of the step just made, made again on the state it left.
Again ==
    IF call'.op = "merge_field_schema"
    THEN merge_field_schema(State', call'.cls, call'.args[1], call'.args[2],
                            call'.args[3], call'.args[4])
    ELSE add_field(State', call'.cls, call'.args[1], call'.args[2], call'.args[3],
                   call'.args[4], call'.args[5])

\* C6: after a merge_field_schema (or add_field) call that completed, the
\* same call made again returns False and leaves the registry, the ordered
\* names and the Schema Document unchanged and unsaved.
C6_MergeIdempotent ==
    [][ (call'.op \in MergeOps /\ Ok(call'.err))
        => (/\ Again.ret = "False"
            /\ Ok(Again.err)
            /\ Again.S = State') ]_vars

\* The schema (path -> field items) and the flags of a merge_field_schema or
\* add_field call.
schema_of(c) ==
    IF c.op = "merge_field_schema" THEN c.args[1]
    ELSE << <<c.args[1], _create_field(c.args[1], c.args[2])>> >>

expand_schema_of(c) == IF c.op = "merge_field_schema" THEN c.args[2] ELSE c.args[3]

recursive_of(c) == IF c.op = "merge_field_schema" THEN c.args[3] ELSE c.args[4]

validate_of(c) == IF c.op = "merge_field_schema" THEN c.args[4] ELSE c.args[5]

\* What _merge_field finds for item i of the call's schema, in the state
\* before the call: the error its checks raise and the new paths.
Merged(c, i) ==
    _merge_field(State, c.cls, schema_of(c)[i][1], schema_of(c)[i][2],
                 validate_of(c), recursive_of(c))

RECURSIVE NewPathsFrom(_, _)
\* The new paths of the call's schema from item i on, in mapping order.
NewPathsFrom(c, i) ==
    IF i > Len(schema_of(c)) THEN <<>>
    ELSE Keys(Merged(c, i).new) \o NewPathsFrom(c, i + 1)

NewPaths(c) == NewPathsFrom(c, 1)

\* Some path of the call's schema fails its own check.
SomeCheckRaises(c) == \E i \in DOMAIN schema_of(c) : ~Ok(Merged(c, i).err)

\* C7 as stated: a merge with expand_schema false and at least one new path
\* fails with an error that lists every new path of the mapping, adds
\* nothing and saves nothing.
C7_NoPartialExpansion ==
    [][ (/\ call'.op \in MergeOps
         /\ ~expand_schema_of(call')
         /\ NewPaths(call') # <<>>)
        => (/\ call'.err.what = "fields do not exist"
            /\ call'.err.names = NewPaths(call')
            /\ call'.saves = 0
            /\ Untouched) ]_vars

\* C7 amended: a merge with expand_schema false and at least one new path
\* fails, adds nothing and saves nothing; its error lists every new path of
\* the mapping when no path of the mapping fails its own check (path
\* resolution, type match, name validation, group-field rules), and is that
\* check's error otherwise.
C7_NoExpansionUnlessAsked ==
    [][ (/\ call'.op \in MergeOps
         /\ ~expand_schema_of(call')
         /\ NewPaths(call') # <<>>)
        => (/\ ~Ok(call'.err)
            /\ call'.saves = 0
            /\ Untouched
            /\ IF SomeCheckRaises(call')
               THEN call'.err.what # "fields do not exist"
               ELSE /\ call'.err.what = "fields do not exist"
                    /\ call'.err.names = NewPaths(call')) ]_vars

\* C7 witness: a merge of two new paths with expand_schema false has failed
\* with an error that lists both.
C7_Witness ==
    /\ call.op = "merge_field_schema"
    /\ ~expand_schema_of(call)
    /\ call.err.what = "fields do not exist"
    /\ Len(call.err.names) = 2
    /\ call.err.names = Keys(schema_of(call))

RECURSIVE Declares(_, _)
\* The field list (descriptors or Schema Document entries) declares the path
\* given by chunks: each chunk names an entry of the list reached so far.
Declares(fields, chunks) ==
    \E i \in DOMAIN fields :
        /\ fields[i].name = chunks[1]
        /\ Len(chunks) > 1 => Declares(fields[i].fields, Tail(chunks))

\* The registry declares the path: its first chunk is a key, and the rest is
\* declared by the embedded fields of that descriptor.
InRegistry(fields, chunks) ==
    /\ chunks[1] \in DOMAIN fields
    /\ Len(chunks) > 1 =>
         LET top == fields[chunks[1]]
             inner == IF IsListField(top) THEN top.field[1] ELSE top
         IN Declares(inner.fields, Tail(chunks))

checked_name(c) ==
    LET f == schema_of(c)[1][2]
        path == schema_of(c)[1][1]
    IN IF IsObjectIdField(f) /\ startswith(path, "_") THEN SubSeq(path, 2, Len(path))
       ELSE path

\* C9: for a top-level name, add_field of a name not in the schema that
\* completes returns True; the same add_field made again returns False; an
\* add_field of an existing name with a type that does not match fails with a
\* type-mismatch error and changes nothing when validate is true, and returns
\* False without error and without change when validate is false.
C9_Redeclare ==
    [][ (call'.op = "add_field" /\ Len(split(call'.args[1])) = 1)
        => LET cls == call'.cls
               n == checked_name(call')
               field == schema_of(call')[1][2]
           IN /\ (n \notin DOMAIN _fields[cls] /\ Ok(call'.err)) => call'.ret = "True"
              /\ call'.ret = "True" => (Ok(Again.err) /\ Again.ret = "False")
              /\ (/\ n \in DOMAIN _fields[cls]
                  /\ n # "id"
                  /\ ~fields_match(field, _fields[cls][n]))
                 => IF validate_of(call')
                    THEN call'.err.what = "type mismatch" /\ Untouched
                    ELSE Ok(call'.err) /\ call'.ret = "False" /\ Untouched ]_vars

\* C10: after a completed rename of one field A to B, renaming B to A
\* completes and gives the descriptor registered under A, and each Schema
\* Document entry that was named A, the name and storage name they had
\* before the first rename.
C10_RenameRoundTrip ==
    [][ (/\ call'.op = "_rename_fields"
         /\ Ok(call'.err)
         /\ Len(field_names_of(call')) = 1)
        => LET cls == call'.cls
               A == call'.args[1][1]
               B == call'.args[2][1]
               back == _rename_fields(State', cls, <<B>>, <<A>>, TRUE)
               before == field_docs_of(dataset_doc, cls)
               after == field_docs_of(back.S.d, cls)
           IN /\ Ok(back.err)
              /\ A \in DOMAIN back.S.f[cls]
              /\ back.S.f[cls][A].name = _fields[cls][A].name
              /\ back.S.f[cls][A].db_field = _fields[cls][A].db_field
              /\ \A i \in DOMAIN before :
                    before[i].name = A =>
                       /\ i \in DOMAIN after
                       /\ after[i].name = A
                       /\ after[i].db_field = before[i].db_field ]_vars

\* C10 witness: a field whose storage name is its name with a leading
\* underscore has been renamed by a single-pair rename that completed.
C10_Witness ==
    /\ call.op = "_rename_fields"
    /\ Ok(call.err)
    /\ call.saves = 1
    /\ Len(field_names_of(call)) = 1
    /\ LET B == call.args[2][1]
       IN /\ B \in DOMAIN _fields[call.cls]
          /\ _fields[call.cls][B].db_field = "_" \o B

RECURSIVE Descriptors(_)
\* The descriptors of a sequence, with the fields they contain and their
\* embedded fields.
Descriptors(fields) ==
    IF fields = <<>> THEN {}
    ELSE {fields[1]} \cup Descriptors(fields[1].field) \cup Descriptors(fields[1].fields)
           \cup Descriptors(Tail(fields))

\* The descriptors a class's registry holds beyond the by-construction ones.
UserFields(fields, ordered, cls) ==
    LET names == SelectSeq(ordered, LAMBDA n : n \notin ByConstruction(cls) /\ n \in DOMAIN fields)
    IN [i \in DOMAIN names |-> fields[names[i]]]

StorageNameDistinct(f) == f.db_field = None \/ f.db_field # f.name

StorageNameByConvention(f) == f.db_field \in {None, f.name, "_" \o f.name}

\* A completed rename of one field gave the descriptor the storage name of
\* the convention it had: None stays None, an underscore-prefixed one stays
\* underscore-prefixed.
RenameKeepsConvention ==
    (/\ call'.op = "_rename_fields"
     /\ Ok(call'.err)
     /\ Len(field_names_of(call')) = 1)
    => LET cls == call'.cls
           was == _fields[cls][call'.args[1][1]]
           new == call'.args[2][1]
       IN /\ new \in DOMAIN _fields'[cls]
          /\ was.db_field = None => _fields'[cls][new].db_field = None
          /\ was.db_field = "_" \o was.name => _fields'[cls][new].db_field = "_" \o new

\* C11 as stated: after a completed add, clone or rename call every
\* descriptor's storage name is None unless it differs from the descriptor's
\* name, and a rename keeps the storage name's convention.
C11_StorageNameNoneUnlessDistinct ==
    [][ /\ (call'.op \in MergeOps \cup {"_rename_fields", "_clone_fields"} /\ Ok(call'.err))
           => \A cls \in Classes :
                 \A f \in Descriptors(UserFields(_fields'[cls], _fields_ordered'[cls], cls)) :
                    StorageNameDistinct(f)
        /\ RenameKeepsConvention ]_vars

\* C11 amended: after a completed add, clone or rename call every
\* descriptor's storage name is None, the descriptor's name, or that name with
\* a leading underscore; a rename keeps the convention: None stays None, an
\* underscore-prefixed storage name stays underscore-prefixed, and any other
\* becomes the new name.
C11_StorageNameConvention ==
    [][ /\ (call'.op \in MergeOps \cup {"_rename_fields", "_clone_fields"} /\ Ok(call'.err))
           => \A cls \in Classes :
                 \A f \in Descriptors(UserFields(_fields'[cls], _fields_ordered'[cls], cls)) :
                    StorageNameByConvention(f)
        /\ RenameKeepsConvention
        /\ (/\ call'.op = "_rename_fields"
            /\ Ok(call'.err)
            /\ Len(field_names_of(call')) = 1
            /\ _fields[call'.cls][call'.args[1][1]].db_field
                  \notin {None, "_" \o _fields[call'.cls][call'.args[1][1]].name})
           => _fields'[call'.cls][call'.args[2][1]].db_field = call'.args[2][1] ]_vars

\* C11 witness: a rename has completed on a field that has no storage name.
C11_Witness ==
    /\ call.op = "_rename_fields"
    /\ Ok(call.err)
    /\ call.saves = 1
    /\ Len(field_names_of(call)) = 1
    /\ call.args[2][1] \in DOMAIN _fields[call.cls]
    /\ _fields[call.cls][call.args[2][1]].db_field = None

\* The descriptor but for its name and storage name.
Unnamed(f) == [f EXCEPT !.name = None, !.db_field = None]

\* C12: after a completed rename of one field, _fields_ordered has the length
\* it had, holds the new name at the index where the old name was and every
\* other name at its index; the old name is no longer registered, and the
\* descriptor registered under the new name is the one that was registered
\* under the old name, named anew.
C12_RenameKeepsOrder ==
    [][ (/\ call'.op = "_rename_fields"
         /\ Ok(call'.err)
         /\ Len(field_names_of(call')) = 1)
        => LET cls == call'.cls
               old == call'.args[1][1]
               new == call'.args[2][1]
               before == _fields_ordered[cls]
               after == _fields_ordered'[cls]
           IN /\ Len(after) = Len(before)
              /\ \A i \in DOMAIN before :
                    after[i] = IF before[i] = old THEN new ELSE before[i]
              /\ \E i \in DOMAIN before : before[i] = old
              /\ old \notin DOMAIN _fields'[cls]
              /\ new \in DOMAIN _fields'[cls]
              /\ _fields'[cls][new].name = new
              /\ Unnamed(_fields'[cls][new]) = Unnamed(_fields[cls][old]) ]_vars

\* C12 witness: a rename has completed on a field that is not the last of
\* _fields_ordered.
C12_Witness ==
    /\ call.op = "_rename_fields"
    /\ Ok(call.err)
    /\ call.saves = 1
    /\ Len(field_names_of(call)) = 1
    /\ \E i \in DOMAIN _fields_ordered[call.cls] :
          /\ _fields_ordered[call.cls][i] = call.args[2][1]
          /\ i < Len(_fields_ordered[call.cls])

\* cls._get_fields_ordered(include_private, use_db_fields) before and after
\* the step.
Listing(include_private, use_db_fields) ==
    _get_fields_ordered(_fields[call'.cls], _fields_ordered[call'.cls],
                        include_private, use_db_fields)

ListingAfter(include_private, use_db_fields) ==
    _get_fields_ordered(_fields'[call'.cls], _fields_ordered'[call'.cls],
                        include_private, use_db_fields)

\* The sequence names each of the keys once, and nothing else.
NamesOnce(names, keys) ==
    /\ Range(names) = keys
    /\ \A i, j \in DOMAIN names : names[i] = names[j] => i = j

\* C13: over every step of a merge/add, clone, clear or delete call, the
\* listing with private names is the names still registered, each once, in
\* insertion order: the names that stay keep their order and the names
\* declared by the step follow them.  The listing without private names is
\* that listing without the names that begin with an underscore, and with
\* use_db_fields each name is replaced in place by the descriptor's storage
\* name, or kept when the descriptor has none.
C13_OrderedListing ==
    [][ (call'.op \in MergeOps \cup {"_clone_fields", "_clear_fields", "_delete_fields"})
        => LET cls == call'.cls
               all == ListingAfter(TRUE, FALSE)
               public == ListingAfter(FALSE, FALSE)
           IN /\ NamesOnce(Listing(TRUE, FALSE), DOMAIN _fields[cls])
                 => NamesOnce(all, DOMAIN _fields'[cls])
              /\ all = SelectSeq(Listing(TRUE, FALSE), LAMBDA n : n \in DOMAIN _fields'[cls])
                        \o SelectSeq(all, LAMBDA n : n \notin DOMAIN _fields[cls])
              /\ public = SelectSeq(all, LAMBDA n : SubSeq(n, 1, 1) # "_")
              /\ Len(ListingAfter(TRUE, TRUE)) = Len(all)
              /\ \A i \in DOMAIN all :
                    ListingAfter(TRUE, TRUE)[i] =
                       IF _fields'[cls][all[i]].db_field = None THEN all[i]
                       ELSE _fields'[cls][all[i]].db_field
              /\ Len(ListingAfter(FALSE, TRUE)) = Len(public)
              /\ \A i \in DOMAIN public :
                    ListingAfter(FALSE, TRUE)[i] =
                       IF _fields'[cls][public[i]].db_field = None THEN public[i]
                       ELSE _fields'[cls][public[i]].db_field ]_vars

\* C13 witness: after a declaration, the registry holds a name that begins
\* with an underscore and a descriptor without a storage name, so that the
\* four listings differ.
C13_Witness ==
    /\ call.op = "add_field"
    /\ call.ret = "True"
    /\ \E n \in DOMAIN _fields[call.cls] : SubSeq(n, 1, 1) = "_"
    /\ \E n \in DOMAIN _fields[call.cls] : _fields[call.cls][n].db_field = None
    /\ Len(_get_fields_ordered(_fields[call.cls], _fields_ordered[call.cls], FALSE, FALSE))
         < Len(_fields_ordered[call.cls])

\* The Schema Document's group-field designation is unset or names a
\* top-level field of the sample class's registry.
GroupFieldExists(doc, fields) ==
    doc.group_field = None \/ doc.group_field \in DOMAIN fields["Sample"]

\* C14: after every merge/add, rename, clone and delete call, completed or
\* failed, the Schema Document's group-field designation is unset or names
\* a field of the sample class's registry, and a completed rename of the
\* group field leaves the designation at the new name.
C14_GroupFieldDesignatesField ==
    [][ (call'.op \in MergeOps \cup BatchOps)
        => /\ GroupFieldExists(dataset_doc', _fields')
           /\ (/\ call'.op = "_rename_fields"
               /\ Ok(call'.err)
               /\ Len(field_names_of(call')) = 1
               /\ call'.args[1][1] = dataset_doc.group_field)
              => dataset_doc'.group_field = call'.args[2][1] ]_vars

\* The names of the group-typed fields of a registry.
GroupFields(fields) == {n \in DOMAIN fields : is_group_field(fields[n])}

\* C15: a merge/add or clone call on registries with at most one group field
\* at sample level and none at frame level leaves them so; an add_field of a
\* group field under a new name fails when the sample registry holds a group
\* field, and always fails on the frame-level class; a clone batch that
\* names a group field fails.
C15_AtMostOneGroupField ==
    [][ (call'.op \in MergeOps \cup {"_clone_fields"})
        => LET cls == call'.cls
           IN /\ (/\ Cardinality(GroupFields(_fields["Sample"])) <= 1
                  /\ GroupFields(_fields["Frame"]) = {})
                 => (/\ Cardinality(GroupFields(_fields'["Sample"])) <= 1
                     /\ GroupFields(_fields'["Frame"]) = {})
              /\ (/\ call'.op = "add_field"
                  /\ call'.args[2] = "group"
                  /\ call'.args[1] \notin DOMAIN _fields[cls]
                  /\ (cls = "Frame" \/ GroupFields(_fields[cls]) # {}))
                 => (~Ok(call'.err) /\ Untouched)
              /\ (/\ call'.op = "_clone_fields"
                  /\ \E i \in DOMAIN field_names_of(call') :
                        field_names_of(call')[i] \in GroupFields(_fields[cls]))
                 => (~Ok(call'.err) /\ Untouched) ]_vars

\* A name the delete tolerance applies to: a default field, or a name that
\* is not registered.
NotDeletable(cls, n) == n \in DefaultFieldsSet(cls) \/ n \notin DOMAIN _fields[cls]

\* The names of the batch that pass the check, in batch order.
Deletable(cls, names) == SelectSeq(names, LAMBDA n : ~NotDeletable(cls, n))

\* The storage key of a registered field.
StorageKey(cls, n) ==
    IF _fields[cls][n].db_field = None THEN n ELSE _fields[cls][n].db_field

\* C16: a delete call whose storage command does not fail.  At level 0 with
\* a name that is a default field or does not exist, the call fails at the
\* first such name, issues no storage command and changes nothing.
\* Otherwise such names are skipped: when no name passes the call completes
\* with nothing touched and nothing saved; else it completes, one $unset of
\* exactly the passing names' storage keys is issued, exactly those names
\* leave the registry, the ordered names and the Schema Document, and the
\* Schema Document is saved.
C16_DeleteTolerance ==
    [][ (call'.op = "_delete_fields" /\ call'.args[3])
        => LET cls == call'.cls
               names == field_names_of(call')
               level == call'.args[2]
               pass == Deletable(cls, names)
               first == CHOOSE i \in DOMAIN names :
                           /\ NotDeletable(cls, names[i])
                           /\ \A j \in 1..(i - 1) : ~NotDeletable(cls, names[j])
           IN IF level = 0 /\ Len(pass) < Len(names)
              THEN /\ ~Ok(call'.err)
                   /\ call'.err.names = <<names[first]>>
                   /\ call'.updates = <<>>
                   /\ call'.saves = 0
                   /\ Untouched
              ELSE IF pass = <<>>
              THEN Ok(call'.err) /\ call'.updates = <<>> /\ call'.saves = 0 /\ Untouched
              ELSE /\ Ok(call'.err)
                   /\ call'.updates =
                        << [coll |-> cls, op |-> "$unset",
                            expr |-> [i \in DOMAIN pass |-> StorageKey(cls, pass[i])]] >>
                   /\ DOMAIN _fields'[cls] = DOMAIN _fields[cls] \ Range(pass)
                   /\ \A n \in DOMAIN _fields'[cls] : _fields'[cls][n] = _fields[cls][n]
                   /\ _fields_ordered'[cls] =
                        SelectSeq(_fields_ordered[cls], LAMBDA n : n \notin Range(pass))
                   /\ \A i \in DOMAIN field_docs_of(dataset_doc', cls) :
                         field_docs_of(dataset_doc', cls)[i].name \notin Range(pass)
                   /\ call'.saves = 1
                   /\ db_dataset_doc' = dataset_doc' ]_vars

\* Pair i of the rename call c names, as its new name, a field registered
\* when the call starts.
TakenName(c, i) == c.args[2][i] \in DOMAIN _fields[c.cls]

\* The old name of pair i can be renamed: it is registered and is not a
\* by-construction field.
Renamable(c, i) ==
    c.args[1][i] \in DOMAIN _fields[c.cls] \ ByConstruction(c.cls)

\* Pair i passes every check of the validation loop.
PairPasses(c, i) ==
    /\ Renamable(c, i)
    /\ ~TakenName(c, i)
    /\ Ok(validate_field_name(c.args[2][i], dataset_doc.media_type, _is_frames_doc(c.cls)))

\* C17: a rename batch with a pair whose new name is registered when the
\* call starts fails, issues no storage command and leaves the registry and
\* the Schema Document unchanged; its error is the already-exists error of
\* the first such pair when the pairs before it pass validation and that
\* pair's old name can be renamed.
C17_SwapRejected ==
    [][ (/\ call'.op = "_rename_fields"
         /\ \E i \in DOMAIN call'.args[1] : TakenName(call', i))
        => LET first == CHOOSE i \in DOMAIN call'.args[1] :
                           /\ TakenName(call', i)
                           /\ \A j \in 1..(i - 1) : ~TakenName(call', j)
           IN /\ ~Ok(call'.err)
              /\ call'.updates = <<>>
              /\ call'.saves = 0
              /\ Untouched
              /\ (/\ \A j \in 1..(first - 1) : PairPasses(call', j)
                  /\ Renamable(call', first))
                 => (/\ call'.err.what = "already exists"
                     /\ call'.err.names = <<call'.args[2][first]>>) ]_vars

\* The registry of a class as the sequence of its descriptors.
RegistrySeq(cls) ==
    [i \in DOMAIN _fields_ordered[cls] |-> _fields[cls][_fields_ordered[cls][i]]]

\* The container a descriptor stands for in a path: the descriptor itself, or
\* the contained field of a list (<<>> when it has none).
Unwrapped(f) == IF IsListField(f) THEN f.field ELSE <<f>>

RECURSIVE Offending(_, _, _)
\* The index of the first segment of chunks, from i on and the last left out,
\* that does not name a field of the container `fields` or names one that is
\* not an embedded document after unwrapping; 0 when there is none.
Offending(fields, chunks, i) ==
    IF i > Len(chunks) - 1 THEN 0
    ELSE IF \A k \in DOMAIN fields : fields[k].name # chunks[i] THEN i
    ELSE LET f == fields[CHOOSE k \in DOMAIN fields : fields[k].name = chunks[i]]
         IN IF Unwrapped(f) = <<>> \/ ~IsEmbeddedDocumentField(Unwrapped(f)[1]) THEN i
            ELSE Offending(Unwrapped(f)[1].fields, chunks, i + 1)

\* The offending segment of path i of the call's mapping, in the state before
\* the call.
OffendingOf(c, i) == Offending(RegistrySeq(c.cls), split(schema_of(c)[i][1]), 1)

\* C18: a merge whose mapping has a path with an offending segment fails and
\* leaves the registry and the Schema Document unchanged and unsaved; when
\* no earlier path of the mapping fails a check, the error names the dotted
\* prefix that ends at the offending segment.  A merge that completes has no
\* such path.
C18_PathResolution ==
    [][ (call'.op \in MergeOps)
        => \A i \in DOMAIN schema_of(call') :
              OffendingOf(call', i) # 0
              => /\ ~Ok(call'.err)
                 /\ call'.saves = 0
                 /\ Untouched
                 /\ (\A j \in 1..(i - 1) : Ok(Merged(call', j).err))
                    => /\ call'.err.what \in {"non-existent field", "not an embedded field"}
                       /\ call'.err.names =
                            << join(SubSeq(split(schema_of(call')[i][1]), 1,
                                           OffendingOf(call', i))) >> ]_vars

\* C18 witness: a merge of a path of three segments has failed at its second
\* segment, which names a field that is not an embedded document.
C18_Witness ==
    /\ call.op = "add_field"
    /\ call.args[1] = "e.x.y"
    /\ call.err.what = "not an embedded field"
    /\ call.err.names = <<"e.x">>

\* The call is an add_field of a path whose leaf name is "id", or "_id" for
\* an ObjectIdField.
NamesId(c) ==
    /\ c.op = "add_field"
    /\ \/ Last(split(c.args[1])) = "id"
       \/ (c.args[2] = "oid" /\ Last(split(c.args[1])) = "_id")

\* C19 as stated: an add_field of a path whose leaf name is "id" (or "_id"
\* for an ObjectIdField) raises no error, returns False and changes and
\* saves nothing, whatever the descriptor type and the flags.
C19_IdAlwaysIgnored ==
    [][ NamesId(call')
        => (/\ Ok(call'.err)
            /\ call'.ret = "False"
            /\ call'.saves = 0
            /\ Untouched) ]_vars

\* C19 amended: such an add_field changes and saves nothing; it raises no
\* error and returns False when every segment before the leaf resolves to an
\* embedded document, and fails with the path-resolution error otherwise.
C19_IdIgnoredWhenResolved ==
    [][ NamesId(call')
        => /\ call'.saves = 0
           /\ Untouched
           /\ IF OffendingOf(call', 1) = 0
              THEN Ok(call'.err) /\ call'.ret = "False"
              ELSE call'.err.what \in {"non-existent field", "not an embedded field"} ]_vars

\* C19 witness: add_field of "id" inside an embedded document that exists
\* has returned False.
C19_Witness ==
    /\ call.op = "add_field"
    /\ call.args[1] = "e.id"
    /\ Ok(call.err)
    /\ call.ret = "False"

\* C20: an add_field of an ObjectIdField under a top-level name "_x" that
\* completes returns True exactly when "x" was not registered; the field it
\* adds is registered as "x"; and the same call made again returns False and
\* changes nothing.
C20_MarkedIdentifierDeclaresUnmarked ==
    [][ (/\ call'.op = "add_field"
         /\ call'.args[2] = "oid"
         /\ Len(split(call'.args[1])) = 1
         /\ startswith(call'.args[1], "_")
         /\ Ok(call'.err))
        => LET cls == call'.cls
               x == SubSeq(call'.args[1], 2, Len(call'.args[1]))
           IN /\ call'.ret = "True" <=> x \notin DOMAIN _fields[cls]
              /\ call'.ret = "True" =>
                   /\ x \in DOMAIN _fields'[cls]
                   /\ Ok(Again.err)
                   /\ Again.ret = "False"
                   /\ Again.S = State' ]_vars

\* C21: _declare_field under a name not in the registry appends the name at
\* the end of _fields_ordered and registers the descriptor as given; under a
\* registered name it keeps _fields_ordered as it was and registers the new
\* descriptor with the previous descriptor's required and null and its own
\* type and storage name; no other name's descriptor changes.
C21_DeclareInsertsOrReplaces ==
    [][ call'.op = "_declare_field"
        => LET cls == call'.cls
               field == call'.args[1]
               name == field.name
           IN /\ DOMAIN _fields'[cls] = DOMAIN _fields[cls] \cup {name}
              /\ \A n \in DOMAIN _fields[cls] \ {name} : _fields'[cls][n] = _fields[cls][n]
              /\ IF name \notin DOMAIN _fields[cls]
                 THEN /\ _fields_ordered'[cls] = Append(_fields_ordered[cls], name)
                      /\ _fields'[cls][name] = field
                 ELSE /\ _fields_ordered'[cls] = _fields_ordered[cls]
                      /\ _fields'[cls][name] =
                            [field EXCEPT !.required = _fields[cls][name].required,
                                          !.null = _fields[cls][name].null] ]_vars

\* A descriptor was declared under a registered name in the middle of the
\* sequence, and took a required and a null that were not its own.
C21_Witness ==
    /\ call.op = "_declare_field"
    /\ LET cls == call.cls
           field == call.args[1]
       IN /\ Len(_fields_ordered[cls]) = Len(BaseFields(cls)) + 1
          /\ field.name = _fields_ordered[cls][2]
          /\ _fields[cls][field.name].ftype = field.ftype
          /\ _fields[cls][field.name].db_field = field.db_field
          /\ _fields[cls][field.name].required # field.required
          /\ _fields[cls][field.name].null # field.null

\* The key k is the path ff or a path below it.
UnderField(k, ff) ==
    /\ Len(split(k)) >= Len(split(ff))
    /\ SubSeq(split(k), 1, Len(split(ff))) = split(ff)

\* The key k is the list ff itself or one segment (a position) below it.
RootOrIndex(k, ff) == UnderField(k, ff) /\ Len(split(k)) <= Len(split(ff)) + 1

\* The key k addresses a sub-field of an indexed element of the list ff.
ElementSubfield(k, ff) == UnderField(k, ff) /\ Len(split(k)) >= Len(split(ff)) + 2

\* The keys of every operator of an update.
KeysOf(update_doc) ==
    UNION {Range(Keys(update_doc[i][2])) : i \in DOMAIN update_doc}

ModifiesRoot(err) == err.what = "modifying root of filtered list field"

\* C22: when some key of some operator of the update is a filtered list field
\* or one segment below it, _extract_extra_updates raises the ValueError of
\* the illegal-modification check and leaves the update as it was given; a
\* key that addresses a sub-field of an indexed element is never the key that
\* error names.
C22_RootAndIndexRejected ==
    call.op = "_extract_extra_updates"
    => LET update_doc == call.args[2]
           ffs == Range(call.args[3])
       IN /\ (\E k \in KeysOf(update_doc), ff \in ffs : RootOrIndex(k, ff))
               => /\ call.err.type = "ValueError"
                  /\ ModifiesRoot(call.err)
                  /\ call.update_doc = update_doc
                  /\ call.ret = <<>>
          /\ \A k \in KeysOf(update_doc), ff \in ffs :
               ElementSubfield(k, ff) => ~(ModifiesRoot(call.err) /\ call.err.names = <<k>>)

\* An update whose first "$set" key is a sub-field of an element and whose
\* second is a positional index was rejected for the second, as it was given.
C22_Witness ==
    /\ call.op = "_extract_extra_updates"
    /\ ModifiesRoot(call.err)
    /\ call.err.names = <<"dets.detections.1">>
    /\ call.args[2][1][1] = "$set"
    /\ Len(call.args[2][1][2]) = 2
    /\ call.args[2][1][2][1][1] = "dets.detections.0.label"
    /\ call.update_doc = call.args[2]

\* The "$set" entries of an update (none when it has no "$set").
SetEntries(update_doc) ==
    IF HasKey(update_doc, "$set") THEN DictGet(update_doc, "$set") ELSE <<>>

\* The filtered field of ffs the key k addresses an element's sub-field of.
Rewritten(k, ffs) == {ff \in ffs : ElementSubfield(k, ff)}

FieldOf(k, ffs) == CHOOSE ff \in Rewritten(k, ffs) : TRUE

\* The position the key k names in the list ff, and the element there in the
\* in-memory document.
PositionOf(k, ff) == int(split(k)[Len(split(ff)) + 1])

LiveList(self, ff) == getitems(self, split(ff)).el

Addressable(self, k, ff) ==
    /\ Ok(PositionOf(k, ff).err)
    /\ PositionOf(k, ff).val \in 0..(Len(LiveList(self, ff)) - 1)

\* The extra update the entry (k, v) under the filtered field ff stands for.
ElementUpdate(self, k, v, ff) ==
    << << <<"$set",
            << << join(split(ff) \o <<"$[element]">>
                         \o SubSeq(split(k), Len(split(ff)) + 2, Len(split(k)))),
                  v >> >> >> >>,
       LiveList(self, ff)[PositionOf(k, ff).val + 1]._id >>

RECURSIVE ExpectedExtras(_, _, _)
ExpectedExtras(self, entries, ffs) ==
    IF entries = <<>> THEN <<>>
    ELSE (IF Rewritten(entries[1][1], ffs) = {} THEN <<>>
          ELSE <<ElementUpdate(self, entries[1][1], entries[1][2],
                               FieldOf(entries[1][1], ffs))>>)
           \o ExpectedExtras(self, Tail(entries), ffs)

\* The primary update afterwards: "$set" without the rewritten entries, and
\* without "$set" when none is left; the other operators as they were.
ExpectedPrimary(update_doc, ffs) ==
    LET left == SelectSeq(SetEntries(update_doc), LAMBDA e : Rewritten(e[1], ffs) = {})
    IN IF ~HasKey(update_doc, "$set") THEN update_doc
       ELSE IF left = <<>> THEN SelectSeq(update_doc, LAMBDA o : o[1] # "$set")
       ELSE [i \in DOMAIN update_doc |->
               IF update_doc[i][1] = "$set" THEN <<"$set", left>> ELSE update_doc[i]]

\* C23: for an update none of whose keys is a filtered list or a position in
\* one, and whose "$set" keys below a position of a filtered list name an
\* element the in-memory list has, _extract_extra_updates returns, in the
\* order of the "$set" entries, one extra update per entry ff.<index>.<rest>,
\* setting ff.$[element].<rest> to the entry's value and paired with the _id of
\* the element at <index>; these entries are gone from "$set", "$set" is gone
\* when nothing is left in it, and every other entry is as it was.
C23_SetEntriesRewritten ==
    (/\ call.op = "_extract_extra_updates"
     /\ call.args[3] # <<>>
     /\ \A k \in KeysOf(call.args[2]), ff \in Range(call.args[3]) : ~RootOrIndex(k, ff)
     /\ \A k \in Range(Keys(SetEntries(call.args[2]))) :
          \A ff \in Rewritten(k, Range(call.args[3])) : Addressable(call.args[1], k, ff))
    => /\ Ok(call.err)
       /\ call.ret = ExpectedExtras(call.args[1], SetEntries(call.args[2]),
                                    Range(call.args[3]))
       /\ call.update_doc = ExpectedPrimary(call.args[2], Range(call.args[3]))

\* The call of a thread made on its own, from start to end.
RunCall(S, th) ==
    CASE th.op = "merge_field_schema" ->
           merge_field_schema(S, th.cls, th.args[1], th.args[2], th.args[3], th.args[4]).S
      [] th.op = "_rename_fields" ->
           _rename_fields(S, th.cls, th.args[1], th.args[2], TRUE).S
      [] th.op = "_delete_fields" ->
           _delete_fields(S, th.cls, th.args[1], th.args[2], TRUE).S

\* What the serial execution of thread t's call, then thread u's, leaves.
SerialRun(t, u) ==
    RunCall(RunCall(Prepared(dataset_doc.media_type), threads[t]), threads[u])

BothEnded == Len(threads) = 2 /\ \A t \in DOMAIN threads : threads[t].pc = "done"

\* The registry and the Schema Document's field list of every class are those
\* of the state R.
SameSchemas(R) ==
    \A cls \in Classes :
        /\ _fields[cls] = R.f[cls]
        /\ _fields_ordered[cls] = R.o[cls]
        /\ field_docs_of(dataset_doc, cls) = field_docs_of(R.d, cls)

\* C24: when two threads have run one schema mutation each on different
\* record classes, whatever the interleaving of their steps, every class's
\* _fields, _fields_ordered and Schema Document field list are those one of
\* the two serial executions of the two calls leaves.
C24_DisjointClassesSerializable ==
    (BothEnded /\ threads[1].cls # threads[2].cls)
    => SameSchemas(SerialRun(1, 2)) \/ SameSchemas(SerialRun(2, 1))

\* Two calls on different classes ran interleaved and both changed the schema:
\* a merge that added two fields to the sample class, a rename on the frame
\* class.
C24_Witness ==
    /\ BothEnded
    /\ threads[1].overlapped /\ threads[2].overlapped
    /\ threads[1].cls = "Sample" /\ threads[1].op = "merge_field_schema"
    /\ threads[1].ret = "True" /\ Len(threads[1].work) = 2
    /\ threads[2].cls = "Frame" /\ threads[2].op = "_rename_fields"
    /\ Ok(threads[2].err)
    /\ "c" \in DOMAIN _fields["Frame"]

\* The names a class's Schema Document field list holds more than once.
Repeated(field_docs) ==
    {field_docs[i].name : i \in {j \in DOMAIN field_docs :
                                   \E h \in DOMAIN field_docs : h # j /\ field_docs[h].name = field_docs[j].name}}

\* Both threads called merge_field_schema on one class with a mapping that
\* names a path no field of the class had, the same in both.
SameNewField ==
    /\ Len(threads) = 2
    /\ threads[1].op = "merge_field_schema" /\ threads[2].op = "merge_field_schema"
    /\ threads[1].cls = threads[2].cls
    /\ \E n \in Range(Keys(threads[1].args[1])) \cap Range(Keys(threads[2].args[1])) :
          n \notin DOMAIN Prepared(dataset_doc.media_type).f[threads[1].cls]

Serialized == \A t \in DOMAIN threads : ~threads[t].overlapped

\* C25: when two merge_field_schema calls that add the same new field name to
\* one record class have run one after the other, the class's Schema Document
\* field list holds no name twice.  (That an interleaving of the two calls
\* leaves two entries for one registry field is C25_Interleaved.)
C25_SerializedMergesAddOnce ==
    (BothEnded /\ SameNewField /\ Serialized)
    => Repeated(field_docs_of(dataset_doc, threads[1].cls)) = {}

\* Both calls passed the does-not-exist check before either added: the
\* Schema Document holds two entries for the one registry field "a".
C25_Interleaved ==
    /\ BothEnded /\ SameNewField
    /\ \A t \in DOMAIN threads : threads[t].overlapped /\ threads[t].ret = "True"
    /\ "a" \in Repeated(field_docs_of(dataset_doc, threads[1].cls))
    /\ Len(SelectSeq(_fields_ordered[threads[1].cls], LAMBDA n : n = "a")) = 1

\* The top-level names of a thread's mapping that its class did not have.
NewNamesOf(th) ==
    {n \in Range(Keys(th.args[1])) :
        Len(split(n)) = 1 /\ n \notin DOMAIN Prepared(dataset_doc.media_type).f[th.cls]}

\* The other thread does not merge into the same class.
SoleMerger(t) ==
    \A u \in DOMAIN threads :
        u # t => threads[u].op # "merge_field_schema" \/ threads[u].cls # threads[t].cls

\* C26: a merge_field_schema call that has raised, at whatever step, has
\* added no field of its mapping: none of the mapping's new names is in
\* _fields, in _fields_ordered or in the Schema Document's field list.
C26_MergeFailureAddsNothing ==
    \A t \in DOMAIN threads :
        (/\ threads[t].op = "merge_field_schema"
         /\ threads[t].pc = "done"
         /\ ~Ok(threads[t].err)
         /\ SoleMerger(t))
        => \A n \in NewNamesOf(threads[t]) :
              /\ n \notin DOMAIN _fields[threads[t].cls]
              /\ n \notin Range(_fields_ordered[threads[t].cls])
              /\ ~HasDoc(field_docs_of(dataset_doc, threads[t].cls), n)

\* The call of thread t raised in an _add_field_schema of lines 240-241.
RaisedWhileAdding(t) == ~Ok(threads[t].err) /\ threads[t].work # <<>>

\* C26, amended: a merge_field_schema call that has raised before its first
\* _add_field_schema (path resolution, type conflict, name validation,
\* group-field check, expand_schema) has added no field of its mapping.
C26_CheckFailureAddsNothing ==
    \A t \in DOMAIN threads :
        (/\ threads[t].op = "merge_field_schema"
         /\ threads[t].pc = "done"
         /\ ~Ok(threads[t].err)
         /\ ~RaisedWhileAdding(t)
         /\ SoleMerger(t))
        => \A n \in NewNamesOf(threads[t]) :
              /\ n \notin DOMAIN _fields[threads[t].cls]
              /\ n \notin Range(_fields_ordered[threads[t].cls])
              /\ ~HasDoc(field_docs_of(dataset_doc, threads[t].cls), n)

\* A merge of a new field "a" and of "e.x" into the sample class raised for
\* the second path, whose parent another thread's delete had removed before
\* the merge began its checks: "a" was not added.
C26_Witness ==
    /\ BothEnded
    /\ threads[1].op = "merge_field_schema" /\ threads[1].cls = "Sample"
    /\ Keys(threads[1].args[1]) = <<"a", "e.x">>
    /\ threads[1].err.what = "non-existent field"
    /\ threads[2].op = "_delete_fields" /\ Ok(threads[2].err)
    /\ "e" \notin DOMAIN _fields["Sample"]
    /\ "a" \notin DOMAIN _fields["Sample"]

\* C26, for callers that make one call at a time: a merge_field_schema or
\* add_field call that raises leaves _fields, _fields_ordered and the dataset
\* document (in memory and saved) as they were.
C26_SerializedMergeFailureAddsNothing ==
    [][ (call'.op \in MergeOps /\ ~Ok(call'.err)) => Untouched ]_vars

\* Every pair of the batch call c passed its validation: a rename or clone
\* did not raise from its validation loop; a delete names only fields that
\* can be deleted when the call starts.
BatchValidated(c) ==
    IF c.op = "_delete_fields"
    THEN \A i \in DOMAIN c.args[1] : ~NotDeletable(c.cls, c.args[1][i])
    ELSE c.err.what \notin ValidationErrors

\* C27: a rename, clone or delete batch every pair of which passes validation
\* and whose storage command succeeds does not raise, and saves the Schema
\* Document, whether or not the batch repeats an old or a new name.
C27_ValidatedBatchCompletes ==
    [][ (/\ call'.op \in BatchOps
         /\ call'.args[3]
         /\ BatchValidated(call'))
        => (Ok(call'.err) /\ call'.saves = 1) ]_vars

\* Every name occurs once in the ordered name sequence of each class and at
\* most once in the field list the Schema Document keeps for it.
NamesOccurOnce ==
    \A cls \in Classes :
        /\ Len(_fields_ordered[cls]) = Cardinality(Range(_fields_ordered[cls]))
        /\ Repeated(field_docs_of(dataset_doc, cls)) = {}

NumFields(fields, cls) == Cardinality(DOMAIN fields[cls])

\* A batch call that completed changed the number of registered fields of
\* its class by the number of fields it added or deleted: a rename by none,
\* a clone by one per pair, a delete by one per deleted name.
CountFollowsBatch ==
    (call'.op \in BatchOps /\ Ok(call'.err)) =>
        NumFields(_fields', call'.cls) =
            CASE call'.op = "_rename_fields" -> NumFields(_fields, call'.cls)
              [] call'.op = "_clone_fields" ->
                    NumFields(_fields, call'.cls) + Len(call'.args[1])
              [] call'.op = "_delete_fields" ->
                    NumFields(_fields, call'.cls)
                        - Len(Deletable(call'.cls, call'.args[1]))

\* C28: after any sequence of merge, rename, clone and delete calls, batches
\* with two pairs of the same new name included, every name occurs exactly
\* once in the ordered name sequence and at most once in the Schema
\* Document's field list, and the number of registered fields changes by
\* exactly the number of fields added or deleted.
C28_NoDuplicateNames == []NamesOccurOnce /\ [][CountFollowsBatch]_vars

\* The keys the storage command of the rename or clone call c writes field
\* values under: the targets of its $rename, the keys of its $set.
NewKeys(c) ==
    UNION { { IF u.op = "$rename" THEN u.expr[i][2] ELSE u.expr[i][1]
              : i \in DOMAIN u.expr }
            : u \in { v \in Range(c.updates) : v.op \in {"$rename", "$set"} } }

\* The storage name the Schema Document of class cls records for name n.
DocStorageNames(cls, n) ==
    { fd.db_field : fd \in { d \in Range(field_docs_of(dataset_doc, cls)) : d.name = n } }

\* C29: after a rename or clone that succeeded, the keys the storage command
\* wrote are the storage keys the registry gives the new names (the storage
\* name, or the logical name when the storage name is None), and the Schema
\* Document records the registry's storage name for each new name.
C29_StorageKeyAgreesWithRegistry ==
    (call.op \in {"_rename_fields", "_clone_fields"} /\ Ok(call.err)) =>
        /\ NewKeys(call) = { StorageKey(call.cls, n) : n \in Range(call.args[2]) }
        /\ \A n \in Range(call.args[2]) :
              DocStorageNames(call.cls, n) = {_fields[call.cls][n].db_field}

\* The storage name of a field named n that follows the convention of the
\* descriptor f: None when f has none, underscore-prefixed when f's is its
\* name underscore-prefixed, the name itself otherwise.
FollowsConvention(f, n) ==
    IF f.db_field = None THEN None
    ELSE IF f.db_field = "_" \o f.name THEN "_" \o n ELSE n

\* The clone call c of one pair left class cls as the claim describes, from
\* the registry `fields`, the order `ordered` and the field list `docs`.
CloneAppended(c, fields, ordered, docs) ==
    LET cls == c.cls
        old == c.args[1][1]
        new == c.args[2][1]
        new_docs == field_docs_of(dataset_doc', cls)
    IN /\ _fields_ordered'[cls] = Append(ordered, new)
       /\ DOMAIN _fields'[cls] = DOMAIN fields \cup {new}
       /\ _fields'[cls][new].ftype = fields[old].ftype
       /\ _fields'[cls][new].name = new
       /\ _fields'[cls][new].db_field = FollowsConvention(fields[old], new)
       /\ Len(new_docs) = Len(docs) + 1
       /\ SubSeq(new_docs, 1, Len(docs)) = docs
       /\ Last(new_docs).name = new
       /\ Last(new_docs).db_field = _fields'[cls][new].db_field
       /\ Last(new_docs).ftype = fields[old].ftype
       /\ \A n \in DOMAIN fields : _fields'[cls][n] = fields[n]

\* C30: after a successful clone of one existing field to an unused name,
\* the new name is appended at the end of the ordered name sequence with a
\* descriptor of the source's type and a storage name that follows the
\* source's prefixing convention, a matching entry is appended to the Schema
\* Document, and the source field's descriptor, name, storage name and
\* position are unchanged.
C30_CloneAppendsAndKeepsSource ==
    [][ (/\ call'.op = "_clone_fields"
         /\ Ok(call'.err)
         /\ Len(call'.args[1]) = 1)
        => CloneAppended(call', _fields[call'.cls], _fields_ordered[call'.cls],
                         field_docs_of(dataset_doc, call'.cls)) ]_vars

\* A clone of a field whose storage name is underscore-prefixed completed:
\* the clone is registered last, under an underscore-prefixed storage name.
C30_Witness ==
    /\ call.op = "_clone_fields"
    /\ Ok(call.err)
    /\ Len(call.args[1]) = 1
    /\ call.updates # <<>>
    /\ Last(_fields_ordered[call.cls]) = call.args[2][1]
    /\ _fields[call.cls][call.args[2][1]].db_field = "_" \o call.args[2][1]
    /\ _fields[call.cls][call.args[1][1]].db_field = "_" \o call.args[1][1]

\* The keys of the one $set command of call c, when each is set to null.
NullKeys(c) ==
    IF /\ Len(c.updates) = 1
       /\ c.updates[1].op = "$set"
       /\ c.updates[1].coll = c.cls
       /\ \A i \in DOMAIN c.updates[1].expr : c.updates[1].expr[i][2] = None
    THEN {c.updates[1].expr[i][1] : i \in DOMAIN c.updates[1].expr}
    ELSE {}

\* C31: a _clear_fields call leaves the registry, the ordered names and the
\* Schema Document as they were and does not save the Schema Document.  With
\* a name of the batch that is not registered it fails with a not-found error
\* and issues no storage command; otherwise, the storage command succeeding,
\* it completes with one command that sets the value under the storage key
\* of every named field to null.
C31_ClearChangesValuesOnly ==
    [][ (call'.op = "_clear_fields") =>
          /\ Untouched
          /\ call'.saves = 0
          /\ IF \E n \in Range(call'.args[1]) : n \notin DOMAIN _fields[call'.cls]
             THEN /\ call'.err.type = "AttributeError"
                  /\ call'.err.what = "does not exist"
                  /\ call'.updates = <<>>
             ELSE call'.args[2] =>
                    /\ Ok(call'.err)
                    /\ NullKeys(call') =
                         {StorageKey(call'.cls, n) : n \in Range(call'.args[1])} ]_vars

\* A clear of two registered fields, one of them stored under a key that
\* differs from its name, completed.
C31_Witness ==
    /\ call.op = "_clear_fields"
    /\ Ok(call.err)
    /\ Len(call.args[1]) = 2
    /\ Cardinality(NullKeys(call)) = 2
    /\ \E n \in Range(call.args[1]) : StorageKey(call.cls, n) # n

\* A clear that names an unregistered field failed.
C31_WitnessNotFound ==
    /\ call.op = "_clear_fields"
    /\ call.err.what = "does not exist"

\* C32: a delete call at tolerance 1 or 2 that completed removed from the
\* saved path references of the app configuration those of the fields it
\* deleted and no other: the references of a skipped name (a default field,
\* a name not registered) are the ones there were.
C32_DeleteKeepsSkippedPaths ==
    [][ (/\ call'.op = "_delete_fields"
         /\ call'.args[2] \in {1, 2}
         /\ Ok(call'.err))
        => dataset_doc'.app_config =
              dataset_doc.app_config \ Range(Deletable(call'.cls, call'.args[1])) ]_vars

\* The key k is under no filtered field of ffs: it is none of them and does
\* not continue one of them after a ".".
Outside(k, ffs) == \A ff \in ffs : ~UnderField(k, ff)

\* C33: a key is under a filtered field only when it is the field's path or
\* continues it after a ".".  An update all of whose keys are outside every
\* filtered field is extracted without an error, gives no extra update and
\* keeps its "$set" entries as they were given; and in every update that is extracted without an
\* error, the "$set" entries whose key is outside every filtered field stay
\* in the primary update.
C33_SegmentBoundaries ==
    call.op = "_extract_extra_updates"
    => LET update_doc == call.args[2]
           ffs == Range(call.args[3])
       IN /\ (\A k \in KeysOf(update_doc) : Outside(k, ffs))
               => /\ Ok(call.err)
                  /\ call.ret = <<>>
                  /\ SetEntries(call.update_doc) = SetEntries(update_doc)
          /\ Ok(call.err)
               => \A i \in DOMAIN SetEntries(update_doc) :
                     Outside(SetEntries(update_doc)[i][1], ffs)
                       => SetEntries(update_doc)[i] \in Range(SetEntries(call.update_doc))

RewriteOps == {"_rename_embedded_fields", "_clone_embedded_fields", "_clear_embedded_fields"}

\* The top-level field of a path of class cls, as the view names it: the
\* first segment, after the frames marker for the frame-level class.
RootOf(cls, path) ==
    IF _is_frames_doc(cls) THEN "frames." \o split(path)[1] ELSE split(path)[1]

\* The paths the rewriter call c affects: the old and the new paths of a
\* rename, the new paths of a clone, the paths of a clear.
AffectedPaths(c) ==
    CASE c.op = "_rename_embedded_fields" -> Range(c.args[1]) \cup Range(c.args[2])
      [] c.op = "_clone_embedded_fields" -> Range(c.args[2])
      [] c.op = "_clear_embedded_fields" -> Range(c.args[1])

\* The view commands of the call c whose operation is op.
ViewCommands(c, op) ==
    {i \in DOMAIN c.updates : c.updates[i].coll = "sample_collection" /\ c.updates[i].op = op}

\* C34: a rewriter call with an empty batch gives the view no command.  One
\* with paths that completed built one view and saved it once, as its last
\* command, with the root fields of the affected paths, each once and no
\* other: the roots of the old and the new paths for a rename, of the new
\* paths for a clone, of the cleared paths for a clear, after the frames
\* marker for the frame-level class.
C34_WriteBackIsScoped ==
    call.op \in RewriteOps =>
        IF call.args[1] = <<>>
        THEN call.updates = <<>>
        ELSE Ok(call.err) =>
               /\ ViewCommands(call, "view") = {1}
               /\ ViewCommands(call, "save") = {Len(call.updates)}
               /\ Range(Last(call.updates).expr) =
                     {RootOf(call.cls, path) : path \in AffectedPaths(call)}
               /\ Cardinality(Range(Last(call.updates).expr)) = Len(Last(call.updates).expr)

\* A clone on the frame-level class from one root to another completed: the
\* one root saved is the new path's, after the frames marker.
C34_Witness ==
    /\ call.op = "_clone_embedded_fields"
    /\ call.cls = "Frame"
    /\ Ok(call.err)
    /\ call.args[1] = <<"e.x">>
    /\ call.args[2] = <<"f.x">>
    /\ Last(call.updates).op = "save"
    /\ Last(call.updates).expr = <<"frames.f">>

\* A rename of two pairs over two roots completed on the sample class.
C34_WitnessRename ==
    /\ call.op = "_rename_embedded_fields"
    /\ call.cls = "Sample"
    /\ Ok(call.err)
    /\ Len(call.args[1]) = 2
    /\ Len(Last(call.updates).expr) = 3

====
